---- MODULE Spec2Model ----
(***************************************************************************)
(* Model of the AutoMLOps worker: the job pipeline of                      *)
(* workers/src/worker.py (process_job, main) and the artifact generators   *)
(* of agent/src/generators and workers/src/generators/ci.                  *)
(*                                                                         *)
(* Texts are sequences of tokens. A token is a TLA+ string that denotes a  *)
(* piece of text containing neither a code fence nor a newline, except:    *)
(*   "F"   the Markdown code fence, three backticks                        *)
(*   "NL"  one newline character                                           *)
(* and except the tokens of the fallback templates, which denote blocks of *)
(* literal template text (no fence, no leading or trailing whitespace).    *)
(* Python's str operations (in, split, startswith, strip, join) are        *)
(* computed on the token sequences the way Python computes them on the     *)
(* characters.                                                             *)
(***************************************************************************)
EXTENDS Integers, Sequences, FiniteSets, TLC

VARIABLES
    \* ---- generator harness: one call of one generator's generate() ----
    gKind,      \* which generator is called
    gProfile,   \* the repository analysis handed to it
    gBackend,   \* the behaviour of the injected LLM client for that call
    gPhase,     \* "input" before the call, "returned" after it
    gResult,    \* what generate() did: raised, or the contents returned
    gAgain      \* what a second generate() on the same objects did

genVars == <<gKind, gProfile, gBackend, gPhase, gResult, gAgain>>

VARIABLES
    \* ---- the worker process (workers/src/worker.py) ----
    cfg,        \* feature flags and the managers built from them at import
    llmMode,    \* how the generation backend behaves (environment)
    queue,      \* the Redis list automlops:jobs
    submitted,  \* how many jobs the callers have enqueued so far
    w           \* the worker: its position and the locals of process_job

workerVars == <<cfg, llmMode, queue, submitted, w>>

VARIABLES
    \* ---- several worker processes on one queue (main of worker.py) ----
    fleetQueue, \* the Redis list automlops:jobs
    sent,       \* how many messages the callers have pushed so far
    instances,  \* each worker process: where it is in main, and its job
    deliveries, \* per message, how many times blpop handed it to a worker
    finished,   \* the jobs whose process_job returned
    lost,       \* the jobs whose worker died inside process_job
    bodies,     \* per message pushed, what its data is
    dropped     \* the messages main's except clause ended, with the worker

fleetVars == <<fleetQueue, sent, instances, deliveries, finished, lost,
               bodies, dropped>>

VARIABLES
    \* ---- analyzer harness: one call of analyze_structure ----
    aRepo,      \* the clone directory: whether it exists, and its files
    aPhase,     \* "input" before the call, "returned" after it
    aResult     \* what analyze_structure did: raised, or the analysis

analyzerVars == <<aRepo, aPhase, aResult>>

VARIABLES
    \* ---- one worker and the directories it keeps between jobs ----
    inbox,          \* the job messages still on the list, oldest first
    behaviour,      \* the flags, and how the collaborators answer
    temp_repo_dir,  \* settings.TEMP_REPO_DIR: per directory name, the clone
    automlops_output, \* /tmp/automlops-output: per job id, the directory
    runs            \* what each process_job so far did, in order

rerunVars == <<inbox, behaviour, temp_repo_dir, automlops_output, runs>>

VARIABLES
    \* ---- CI harness: one call of generate_ci_configs ----
    ciAnalysis, \* the analysis_data argument
    ciBackends, \* how the client answers each of the three generators
    ciPhase,    \* "input" before the call, "returned" after it
    ciConfigs   \* the dict generate_ci_configs returned

ciVars == <<ciAnalysis, ciBackends, ciPhase, ciConfigs>>

vars == <<gKind, gProfile, gBackend, gPhase, gResult, gAgain,
          cfg, llmMode, queue, submitted, w,
          fleetQueue, sent, instances, deliveries, finished, lost,
          bodies, dropped,
          aRepo, aPhase, aResult,
          inbox, behaviour, temp_repo_dir, automlops_output, runs,
          ciAnalysis, ciBackends, ciPhase, ciConfigs>>

-----------------------------------------------------------------------------
(* Bounds of the model. *)

\* Longest backend response, in chunks (see Chunks).
MaxChunks == 4

\* How many jobs the callers enqueue.
MaxJobs == 2

\* The longest exception text drawn for an exception raised outside the
\* repository's code (GitHub, object store, cluster), in characters.
MaxErrorLen == 600

-----------------------------------------------------------------------------
(* Python str operations on token sequences. *)

\* str.strip() removes leading and trailing whitespace; the newline is the
\* only whitespace token of the model's alphabet.
IsWs(t) == t \in {"NL", "SP"}

StartsWith(s, p) == Len(s) >= Len(p) /\ SubSeq(s, 1, Len(p)) = p

\* p in s
Contains(s, p) ==
    \E i \in 1..(Len(s) - Len(p) + 1) : SubSeq(s, i, i + Len(p) - 1) = p

RECURSIVE LStrip(_)
LStrip(s) == IF s # <<>> /\ IsWs(Head(s)) THEN LStrip(Tail(s)) ELSE s

RECURSIVE RStrip(_)
RStrip(s) ==
    IF s # <<>> /\ IsWs(s[Len(s)]) THEN RStrip(SubSeq(s, 1, Len(s) - 1)) ELSE s

Strip(s) == RStrip(LStrip(s))

\* s.split(sep): the pieces between the non-overlapping occurrences of sep,
\* scanned left to right; always at least one piece.
RECURSIVE SplitFrom(_, _, _)
SplitFrom(s, sep, cur) ==
    IF s = <<>> THEN <<cur>>
    ELSE IF StartsWith(s, sep)
         THEN <<cur>> \o SplitFrom(SubSeq(s, Len(sep) + 1, Len(s)), sep, <<>>)
         ELSE SplitFrom(Tail(s), sep, Append(cur, Head(s)))

Split(s, sep) == SplitFrom(s, sep, <<>>)

\* sep.join(parts)
RECURSIVE Join(_, _)
Join(parts, sep) ==
    IF parts = <<>> THEN <<>>
    ELSE IF Len(parts) = 1 THEN parts[1]
    ELSE parts[1] \o sep \o Join(Tail(parts), sep)

\* "\n".join(s.split("\n")[1:]): s without its first line.
DropFirstLine(s) == Join(Tail(Split(s, <<"NL">>)), <<"NL">>)

\* The number of characters of a token, for len(); a token not listed
\* is a one-character text.
CharLen(t) ==
    CASE t = "F" -> 3
      [] t = "NL" -> 1
      [] t = "yaml" -> 4
      [] t = "yml" -> 3
      [] t = "---" -> 3
      [] t = "apiVersion: apps/v1" -> 19
      [] t = "apiVersion: v1" -> 14
      [] t = "kind: Deployment" -> 16
      [] t = "kind: Service" -> 13
      [] t = "metadata: m" -> 11
      [] t \in {"spec: d", "spec: s"} -> 7
      [] OTHER -> 1

RECURSIVE TextLen(_)
TextLen(s) == IF s = <<>> THEN 0 ELSE CharLen(Head(s)) + TextLen(Tail(s))

\* A Python call either returns a value or raises.
Ret(v) == [raised |-> FALSE, val |-> v]
Raise(e) == [raised |-> TRUE, val |-> e]

-----------------------------------------------------------------------------
(* Repository analysis (the dict of RepoAnalyzer.analyze_structure). *)

Last(s) == s[Len(s)]

\* dict.get(key, default)
Get(d, key, default) == IF key \in DOMAIN d THEN d[key] ELSE default

\* x in list
InList(x, l) == \E i \in 1..Len(l) : l[i] = x

\* key in text, for the keys the validators look for: the tokens whose text
\* contains the key.
TokensWith(key) ==
    CASE key = "name:" ->
            {"name: deploy", "name: Train ML Model", "name: Deploy ML API",
             "metadata: name:", "- name: Run tests .. pytest tests/",
             "- name: Build Docker image .. push-to-registry ..",
             "- name: Setup CUDA", "jobs: train .. - name: Set up Python ..",
             "- name: Install dependencies .. python", "- name: Upload .."}
      [] key = "on:" ->
            {"on: push", "on: push pull_request",
             "on: push pull_request workflow_dispatch",
             "jobs: build-and-test .. python-version:",
             "jobs: train .. - name: Set up Python .."}
      [] key = "jobs:" ->
            {"jobs: build", "jobs: train",
             "jobs: build-and-test .. python-version:",
             "jobs: train .. - name: Set up Python .."}
      [] key = "apiVersion:" -> {"apiVersion: apps/v1", "apiVersion: v1"}
      [] key = "metadata:" -> {"metadata: m", "metadata: name:"}
      [] key = "spec:" ->
            {"spec: d", "spec: s", "spec: replicas: 2 .. resources ..",
             "spec: type: LoadBalancer .. externalTrafficPolicy: Cluster"}
      [] key = "stages:" -> {"stages: train", "stages: test train deploy"}
      [] OTHER -> {key}

HasKey(text, key) == \E i \in 1..Len(text) : text[i] \in TokensWith(key)

-----------------------------------------------------------------------------
(* agent/src/generators/dockerfile_generator.py *)

Docker_detect_python_version(repo_analysis) == "3.10"

Docker_clean_dockerfile(content) ==
    LET c1 == IF Contains(content, <<"F", "dockerfile">>)
                 \/ Contains(content, <<"F", "Dockerfile">>)
              THEN LET c == Split(content, <<"F">>)[2]
                   IN IF StartsWith(c, <<"dockerfile">>)
                         \/ StartsWith(c, <<"Dockerfile">>)
                      THEN DropFirstLine(c)
                      ELSE c
              ELSE IF Contains(content, <<"F">>)
                   THEN Split(content, <<"F">>)[2]
                   ELSE content
    IN Strip(c1)

Docker_generate_fallback_dockerfile(python_version, frameworks) ==
    LET base_image ==
            IF InList("pytorch", frameworks)
            THEN "pytorch/pytorch:2.1.0-cuda11.8-cudnn8-runtime"
            ELSE IF InList("tensorflow", frameworks)
                 THEN "tensorflow/tensorflow:2.15.0-gpu"
                 ELSE "python:3.10-slim"
    IN <<"FROM", base_image, "NL", "NL",
         "WORKDIR /app .. RUN pip install .. COPY . .", "NL",
         "CMD python train.py", "NL">>

Docker_generate(repo_analysis, backend) ==
    LET frameworks == Get(repo_analysis, "ml_frameworks", <<>>)
        python_version == Docker_detect_python_version(repo_analysis)
    IN IF backend.raises
       THEN Ret(Docker_generate_fallback_dockerfile(python_version, frameworks))
       ELSE Ret(Docker_clean_dockerfile(backend.text))

-----------------------------------------------------------------------------
(* agent/src/generators/training_generator.py *)

\* The second branch calls .split on the list that the first split returns:
\* AttributeError.
Training_clean_code(content) ==
    IF Contains(content, <<"F", "python">>)
    THEN Ret(Strip(Split(Split(content, <<"F", "python">>)[2], <<"F">>)[1]))
    ELSE IF Contains(content, <<"F">>)
         THEN Raise("AttributeError")
         ELSE Ret(Strip(content))

\* entry_point is the list itself when entry_points is not empty, and
\* list has no .replace: AttributeError. "train.py" becomes "train".
Training_generate_fallback_training_script(frameworks, entry_points) ==
    IF entry_points # <<>>
    THEN Raise("AttributeError")
    ELSE Ret(<<"import os .. def upload_to_s3 .. def main", "NL",
               "import", "train", "NL",
               "model_files .. upload_to_s3 .. main()", "NL">>)

Training_generate(repo_analysis, backend) ==
    LET frameworks == Get(repo_analysis, "ml_frameworks", <<>>)
        entry_points == Get(repo_analysis, "entry_points", <<>>)
        fallback ==
            Training_generate_fallback_training_script(frameworks, entry_points)
    IN IF backend.raises THEN fallback
       ELSE LET cleaned == Training_clean_code(backend.text)
            IN IF cleaned.raised THEN fallback ELSE cleaned

-----------------------------------------------------------------------------
(* agent/src/generators/fastapi_generator.py *)

FastAPI_clean_code(content) ==
    IF Contains(content, <<"F", "python">>)
    THEN Ret(Strip(Split(Split(content, <<"F", "python">>)[2], <<"F">>)[1]))
    ELSE IF Contains(content, <<"F">>)
         THEN Raise("AttributeError")
         ELSE Ret(Strip(content))

FastAPI_generate_fallback_fastapi ==
    <<"from fastapi import FastAPI .. /health .. /predict", "NL">>

FastAPI_generate(repo_analysis, backend) ==
    IF backend.raises THEN Ret(FastAPI_generate_fallback_fastapi)
    ELSE LET cleaned == FastAPI_clean_code(backend.text)
         IN IF cleaned.raised THEN Ret(FastAPI_generate_fallback_fastapi)
            ELSE cleaned

-----------------------------------------------------------------------------
(* agent/src/generators/github_actions_generator.py (deploy workflow) *)

AgentGHA_detect_python_version(repo_analysis) ==
    IF "python_version" \in DOMAIN repo_analysis
    THEN repo_analysis["python_version"]
    ELSE "3.10"

\* any(indicator in file_tree.lower() ...): the file-tree tokens whose text
\* contains "test_", "tests/", "pytest" or "unittest".
AgentGHA_detect_tests(repo_analysis) ==
    LET file_tree == Get(repo_analysis, "file_tree", <<>>)
    IN \E i \in 1..Len(file_tree) :
          file_tree[i] \in {"tests/", "test_model.py", "pytest.ini"}

\* The for loop over the parts of content.split(fence): each part that is
\* taken overwrites content, so the last one taken wins.
RECURSIVE AgentGHA_clean_loop(_, _)
AgentGHA_clean_loop(parts, content) ==
    IF parts = <<>> THEN content
    ELSE LET part == Head(parts)
             sp == Strip(part)
             next ==
                 IF StartsWith(sp, <<"yaml">>) \/ StartsWith(sp, <<"yml">>)
                 THEN DropFirstLine(part)
                 ELSE IF ~(StartsWith(sp, <<"F">>) \/ StartsWith(sp, <<"yaml">>)
                           \/ StartsWith(sp, <<"yml">>))
                      THEN part
                      ELSE content
         IN AgentGHA_clean_loop(Tail(parts), next)

\* In the untagged branch content becomes the list content.split(fence)
\* (its length is > 1 whenever the fence occurs), and list has no .strip:
\* AttributeError.
AgentGHA_clean_yaml(content) ==
    IF Contains(content, <<"F", "yaml">>) \/ Contains(content, <<"F", "yml">>)
    THEN Ret(Strip(AgentGHA_clean_loop(Split(content, <<"F">>), content)))
    ELSE IF Contains(content, <<"F">>)
         THEN IF Len(Split(content, <<"F">>)) > 1
              THEN Raise("AttributeError")
              ELSE Ret(Strip(<<content[2]>>))
         ELSE Ret(Strip(content))

AgentGHA_validate_workflow(content) ==
    \A key \in {"name:", "on:", "jobs:"} : HasKey(content, key)

AgentGHA_generate_fallback_workflow(project_name, python_version, has_tests) ==
    LET test_step == IF has_tests
                     THEN <<"NL", "- name: Run tests .. pytest tests/", "NL">>
                     ELSE <<>>
    IN <<"name: Deploy ML API", "NL", "NL",
         "on: push pull_request", "NL",
         "env: IMAGE_NAME: automlops/", project_name, "NL",
         "jobs: build-and-test .. python-version:", python_version, "NL">>
       \o test_step \o
       <<"NL", "- name: Build Docker image .. push-to-registry ..", "NL",
         "deploy-to-kubernetes: kubectl set image deployment/", project_name,
         "NL">>

AgentGHA_generate(repo_analysis, project_name, backend) ==
    LET python_version == AgentGHA_detect_python_version(repo_analysis)
        has_tests == AgentGHA_detect_tests(repo_analysis)
        fallback == Ret(AgentGHA_generate_fallback_workflow(
                            project_name, python_version, has_tests))
    IN IF backend.raises THEN fallback
       ELSE LET cleaned == AgentGHA_clean_yaml(backend.text)
            IN IF cleaned.raised THEN fallback
               ELSE IF ~AgentGHA_validate_workflow(cleaned.val) THEN fallback
               ELSE cleaned

-----------------------------------------------------------------------------
(* agent/src/generators/k8s_generator.py *)

K8s_detect_gpu_requirement(frameworks) ==
    \E i \in 1..Len(frameworks) :
        frameworks[i] \in {"tensorflow", "pytorch", "keras"}

RECURSIVE K8s_clean_loop(_, _)
K8s_clean_loop(parts, content) ==
    IF parts = <<>> THEN content
    ELSE LET part == Head(parts)
             sp == Strip(part)
             next ==
                 IF StartsWith(sp, <<"yaml">>) \/ StartsWith(sp, <<"yml">>)
                 THEN DropFirstLine(part)
                 ELSE IF ~(StartsWith(sp, <<"F">>) \/ StartsWith(sp, <<"yaml">>)
                           \/ StartsWith(sp, <<"yml">>))
                         /\ TextLen(sp) > 50
                      THEN part
                      ELSE content
         IN K8s_clean_loop(Tail(parts), next)

K8s_clean_yaml(content) ==
    IF Contains(content, <<"F", "yaml">>) \/ Contains(content, <<"F", "yml">>)
    THEN Strip(K8s_clean_loop(Split(content, <<"F">>), content))
    ELSE IF Contains(content, <<"F">>)
         THEN LET parts == Split(content, <<"F">>)
              IN Strip(IF Len(parts) > 1 THEN parts[2] ELSE content)
         ELSE Strip(content)

\* The first loop of _split_manifests: the last document of each kind wins.
RECURSIVE K8s_split_loop(_, _)
K8s_split_loop(parts, acc) ==
    IF parts = <<>> THEN acc
    ELSE LET part == Strip(Head(parts))
             next ==
                 IF part = <<>> THEN acc
                 ELSE IF Contains(part, <<"kind: Deployment">>)
                         \/ Contains(part, <<"kind: deployment">>)
                      THEN <<part, acc[2]>>
                      ELSE IF Contains(part, <<"kind: Service">>)
                              \/ Contains(part, <<"kind: service">>)
                           THEN <<acc[1], part>>
                           ELSE acc
         IN K8s_split_loop(Tail(parts), next)

\* [p.strip() for p in parts if p.strip()]
RECURSIVE K8s_nonempty_stripped(_)
K8s_nonempty_stripped(parts) ==
    IF parts = <<>> THEN <<>>
    ELSE (IF Strip(Head(parts)) # <<>> THEN <<Strip(Head(parts))>> ELSE <<>>)
         \o K8s_nonempty_stripped(Tail(parts))

\* Returns <<deployment, service>>.
K8s_split_manifests(content) ==
    LET parts == Split(content, <<"---">>)
        found == K8s_split_loop(parts, <<<<>>, <<>>>>)
        rest == K8s_nonempty_stripped(parts)
    IN IF (found[1] = <<>> \/ found[2] = <<>>) /\ Len(rest) >= 2
       THEN <<rest[1], rest[2]>>
       ELSE found

K8s_validate_manifests(deployment, service) ==
    /\ \A key \in {"apiVersion:", "kind: Deployment", "metadata:", "spec:"} :
          HasKey(deployment, key)
    /\ \A key \in {"apiVersion:", "kind: Service", "metadata:", "spec:"} :
          HasKey(service, key)

\* Returns <<deployment, service>>.
K8s_generate_fallback_manifests(project_name, requires_gpu) ==
    LET gpu_resources == IF requires_gpu
                         THEN <<"NL", "limits: nvidia.com/gpu: 1">>
                         ELSE <<>>
    IN << <<"apiVersion: apps/v1", "NL", "kind: Deployment", "NL",
            "metadata: name:", project_name, "NL",
            "spec: replicas: 2 .. resources ..">>
          \o gpu_resources \o
          <<"NL", "livenessProbe .. readinessProbe .. restartPolicy: Always",
            "NL">>,
          <<"apiVersion: v1", "NL", "kind: Service", "NL",
            "metadata: name:", project_name, "-service", "NL",
            "spec: type: LoadBalancer .. externalTrafficPolicy: Cluster",
            "NL">> >>

\* The value returned is the pair <<deployment, service>>.
K8s_generate(repo_analysis, project_name, backend) ==
    LET frameworks == Get(repo_analysis, "ml_frameworks", <<>>)
        requires_gpu == K8s_detect_gpu_requirement(frameworks)
        fallback == Ret(K8s_generate_fallback_manifests(project_name, requires_gpu))
    IN IF backend.raises THEN fallback
       ELSE LET manifests == K8s_split_manifests(K8s_clean_yaml(backend.text))
            IN IF ~K8s_validate_manifests(manifests[1], manifests[2])
               THEN fallback
               ELSE Ret(manifests)

-----------------------------------------------------------------------------
(* workers/src/generators/ci/base_generator.py *)

\* BaseCIGenerator.__init__: the fields read from analysis_data.
CI_python_version(analysis_data) == Get(analysis_data, "python_version", "3.10")
CI_has_gpu(analysis_data) == Get(analysis_data, "needs_gpu", FALSE)
CI_entry_point(analysis_data) == Get(analysis_data, "training_script", "train.py")

\* _call_llm: the response, or the generator's fallback when the client
\* raises.
CI_call_llm(backend, fallback_config) ==
    IF backend.raises THEN fallback_config ELSE backend.text

-----------------------------------------------------------------------------
(* workers/src/generators/ci/github_actions_generator.py (train workflow) *)

\* Variant that names the training workflow like the deploy workflow.
GHA_get_filename_deploy == ".github/workflows/deploy.yml"

GHA_get_filename == ".github/workflows/train.yml"

\* Variant whose last line returns yaml_content instead of
\* yaml_content.strip().
GHA_clean_yaml_unstripped(yaml_content) ==
    IF Contains(yaml_content, <<"F", "yaml">>) THEN Raise("AttributeError")
    ELSE IF Contains(yaml_content, <<"F">>) THEN Raise("AttributeError")
    ELSE Ret(yaml_content)

\* Both branches call .split on the list that the first split returns:
\* AttributeError.
GHA_clean_yaml(yaml_content) ==
    IF Contains(yaml_content, <<"F", "yaml">>) THEN Raise("AttributeError")
    ELSE IF Contains(yaml_content, <<"F">>) THEN Raise("AttributeError")
    ELSE Ret(Strip(yaml_content))

GHA_get_fallback_config(analysis_data) ==
    LET gpu_jobs == IF CI_has_gpu(analysis_data)
                    THEN <<"NL", "- name: Setup CUDA", "NL">>
                    ELSE <<>>
    IN <<"name: Train ML Model", "NL", "NL",
         "on: push pull_request workflow_dispatch", "NL", "NL",
         "jobs: train .. - name: Set up Python ..",
         CI_python_version(analysis_data), "NL">>
       \o gpu_jobs \o
       <<"NL", "- name: Install dependencies .. python",
         CI_entry_point(analysis_data), "NL", "- name: Upload ..", "NL">>

GHA_generate(analysis_data, backend) ==
    GHA_clean_yaml(CI_call_llm(backend, GHA_get_fallback_config(analysis_data)))

-----------------------------------------------------------------------------
(* workers/src/generators/ci/gitlab_ci_generator.py *)

GitLab_get_filename == ".gitlab-ci.yml"

\* With a fence yaml_content becomes a list (or .split is called on a
\* list): AttributeError either way.
GitLab_clean_yaml(yaml_content) ==
    IF Contains(yaml_content, <<"F", "yaml">>) THEN Raise("AttributeError")
    ELSE IF Contains(yaml_content, <<"F">>) THEN Raise("AttributeError")
    ELSE Ret(Strip(yaml_content))

GitLab_get_fallback_config(analysis_data) ==
    LET gpu_tags == IF CI_has_gpu(analysis_data)
                    THEN <<"NL", "tags: - gpu">>
                    ELSE <<>>
    IN <<"stages: test train deploy", "NL", "NL",
         "variables .. cache .. test: image: python:",
         CI_python_version(analysis_data), "NL",
         "train: image: python:", CI_python_version(analysis_data)>>
       \o gpu_tags \o
       <<"NL", "script: python", CI_entry_point(analysis_data), "NL",
         "deploy: .. when: manual", "NL">>

GitLab_generate(analysis_data, backend) ==
    GitLab_clean_yaml(
        CI_call_llm(backend, GitLab_get_fallback_config(analysis_data)))

-----------------------------------------------------------------------------
(* workers/src/generators/ci/jenkins_generator.py *)

Jenkins_get_filename == "Jenkinsfile"

Jenkins_clean_groovy(groovy_content) ==
    IF Contains(groovy_content, <<"F", "groovy">>) THEN Raise("AttributeError")
    ELSE IF Contains(groovy_content, <<"F">>) THEN Raise("AttributeError")
    ELSE Ret(Strip(groovy_content))

Jenkins_get_fallback_config(analysis_data) ==
    LET has_gpu == CI_has_gpu(analysis_data)
        agent_config == IF has_gpu THEN "{ label 'gpu' }" ELSE "any"
        gpu_env == IF has_gpu THEN <<"NL", "CUDA_VISIBLE_DEVICES = '0'">>
                   ELSE <<>>
    IN <<"pipeline { agent", agent_config, "NL", "NL",
         "environment { PYTHON_VERSION =", CI_python_version(analysis_data),
         "NL", "TRAINING_SCRIPT =", CI_entry_point(analysis_data)>>
       \o gpu_env \o
       <<"NL", "} stages { .. } post { .. } }", "NL">>

Jenkins_generate(analysis_data, backend) ==
    Jenkins_clean_groovy(
        CI_call_llm(backend, Jenkins_get_fallback_config(analysis_data)))

-----------------------------------------------------------------------------
(* Generator harness: one call of generate() on a drawn input. *)

Kinds == {"dockerfile", "training", "fastapi", "deploy_workflow", "k8s",
          "gha_train", "gitlab_ci", "jenkins"}

\* The kinds whose generate() returns YAML.
YamlKinds == {"deploy_workflow", "k8s", "gha_train", "gitlab_ci"}

\* The language tag a backend puts on a fenced block of the kind.
FenceTag(kind) ==
    CASE kind = "dockerfile" -> "dockerfile"
      [] kind \in {"training", "fastapi"} -> "python"
      [] kind = "jenkins" -> "groovy"
      [] OTHER -> "yaml"

DeploymentDoc == <<"apiVersion: apps/v1", "NL", "kind: Deployment", "NL",
                   "metadata: m", "NL", "spec: d">>
ServiceDoc == <<"apiVersion: v1", "NL", "kind: Service", "NL",
                "metadata: m", "NL", "spec: s">>

\* A text of the kind that has the structure its consumer expects (for the
\* YAML kinds: the expected top-level keys).
WellFormed(kind) ==
    CASE kind = "deploy_workflow" ->
            <<"name: deploy", "NL", "on: push", "NL", "jobs: build">>
      [] kind = "gha_train" ->
            <<"name: Train ML Model", "NL", "on: push", "NL", "jobs: train">>
      [] kind = "gitlab_ci" -> <<"stages: train">>
      [] kind = "k8s" -> DeploymentDoc \o <<"NL", "---", "NL">> \o ServiceDoc
      [] OTHER -> <<"b">>

\* A text of the kind that lacks that structure.
Plain(kind) ==
    CASE kind = "deploy_workflow" -> <<"name: deploy">>
      [] kind = "k8s" -> ServiceDoc
      [] OTHER -> <<"a">>

\* The pieces the drawn backend responses are made of.
Chunks(kind) ==
    {<<"F">>, <<"F", FenceTag(kind), "NL">>, <<"NL">>,
     Plain(kind), WellFormed(kind)}
    \cup (IF kind = "k8s" THEN {DeploymentDoc, <<"---">>} ELSE {})

RECURSIVE Flatten(_)
Flatten(ss) == IF ss = <<>> THEN <<>> ELSE Head(ss) \o Flatten(Tail(ss))

Responses(kind) ==
    {Flatten(cs) : cs \in UNION {[1..n -> Chunks(kind)] : n \in 0..MaxChunks}}

\* What the injected LLM client does when called: raise, or return a text.
BackendRaises == [raises |-> TRUE, text |-> <<>>]
BackendReturns(text) == [raises |-> FALSE, text |-> text]
Backends(kind) == {BackendRaises} \cup {BackendReturns(r) : r \in Responses(kind)}

\* Analyses: of a repository with nothing recognisable in it, of an ML
\* repository (both as RepoAnalyzer.analyze_structure shapes them), and the
\* analysis_data of workers/tests/test_ci_generators.py.
BareProfile ==
    [ml_frameworks |-> <<>>, entry_points |-> <<>>,
     file_tree |-> <<"repo", "NL", "README.md">>]
MLProfile ==
    [ml_frameworks |-> <<"pytorch">>, entry_points |-> <<"train.py">>,
     file_tree |-> <<"repo", "NL", "tests/", "NL", "train.py">>]
FixtureProfile ==
    [repo_name |-> "test-ml-project", framework |-> "tensorflow",
     python_version |-> "3.10", needs_gpu |-> TRUE,
     training_script |-> "train.py"]
Profiles == {BareProfile, MLProfile, FixtureProfile}

\* generate() of every generator, with one shape of result:
\* raised, or the returned contents (two for the Kubernetes manifests).
One(r) == [raised |-> r.raised, contents |-> IF r.raised THEN <<>> ELSE <<r.val>>]
Two(r) == [raised |-> r.raised, contents |-> IF r.raised THEN <<>> ELSE r.val]

Generate(kind, repo_analysis, project_name, backend) ==
    CASE kind = "dockerfile" -> One(Docker_generate(repo_analysis, backend))
      [] kind = "training" -> One(Training_generate(repo_analysis, backend))
      [] kind = "fastapi" -> One(FastAPI_generate(repo_analysis, backend))
      [] kind = "deploy_workflow" ->
            One(AgentGHA_generate(repo_analysis, project_name, backend))
      [] kind = "k8s" -> Two(K8s_generate(repo_analysis, project_name, backend))
      [] kind = "gha_train" -> One(GHA_generate(repo_analysis, backend))
      [] kind = "gitlab_ci" -> One(GitLab_generate(repo_analysis, backend))
      [] kind = "jenkins" -> One(Jenkins_generate(repo_analysis, backend))

NoResult == [raised |-> FALSE, contents |-> <<>>]

\* The parts of the state a specification does not use stay at these
\* values.
FleetUnused ==
    /\ fleetQueue = <<>>
    /\ sent = 0
    /\ instances = <<>>
    /\ deliveries = <<>>
    /\ finished = {}
    /\ lost = {}
    /\ bodies = <<>>
    /\ dropped = {}

AnalyzerUnused ==
    /\ aRepo = [exists |-> FALSE, files |-> <<>>]
    /\ aPhase = "unused"
    /\ aResult = Raise("unused")

RerunUnused ==
    /\ inbox = <<>>
    /\ behaviour = [unused |-> TRUE]
    /\ temp_repo_dir = <<>>
    /\ automlops_output = <<>>
    /\ runs = <<>>

CiUnused ==
    /\ ciAnalysis = [unused |-> TRUE]
    /\ ciBackends = <<>>
    /\ ciPhase = "unused"
    /\ ciConfigs = <<>>

WorkerUnused ==
    /\ cfg = [ENABLE_K8S_BUILD |-> FALSE, ENABLE_TRAINING |-> FALSE,
              ENABLE_DEPLOYMENT |-> FALSE, ENABLE_S3_UPLOAD |-> FALSE,
              ENABLE_GITHUB_PUSH |-> FALSE, ENABLE_CICD_GENERATION |-> FALSE,
              k8s_manager |-> "None", s3_manager |-> "None"]
    /\ llmMode = "ok"
    /\ queue = <<>>
    /\ submitted = 0
    /\ w = [pc |-> "unused"]

GenInit ==
    /\ gKind \in Kinds
    /\ gProfile \in Profiles
    /\ gBackend \in Backends(gKind)
    /\ gPhase = "input"
    /\ gResult = NoResult
    /\ gAgain = NoResult
    /\ WorkerUnused
    /\ FleetUnused
    /\ AnalyzerUnused
    /\ RerunUnused
    /\ CiUnused

\* Variant of the call in which generate() consumes the entry points of
\* the analysis it was given.
CallGenerate_consuming_analysis(kind) ==
    /\ gPhase = "input"
    /\ gKind = kind
    /\ gResult' = Generate(kind, gProfile, "ml-api", gBackend)
    /\ gPhase' = "returned"
    /\ gProfile' = [gProfile EXCEPT !.entry_points = <<>>]
    /\ UNCHANGED <<gKind, gBackend, gAgain>>
    /\ UNCHANGED <<workerVars, fleetVars, analyzerVars, rerunVars, ciVars>>

\* One call of generate(): it reads the analysis and the client and assigns
\* to neither, nor to an attribute of the generator.
CallGenerate(kind) ==
    /\ gPhase = "input"
    /\ gKind = kind
    /\ gResult' = Generate(kind, gProfile, "ml-api", gBackend)
    /\ gPhase' = "returned"
    /\ UNCHANGED <<gKind, gProfile, gBackend, gAgain>>
    /\ UNCHANGED <<workerVars, fleetVars, analyzerVars, rerunVars, ciVars>>

\* A second call of generate() on the same generator, with the analysis
\* and the client as the first call left them and the client answering as
\* before.
CallGenerateAgain ==
    /\ gPhase = "returned"
    /\ gAgain' = Generate(gKind, gProfile, "ml-api", gBackend)
    /\ gPhase' = "returned_twice"
    /\ UNCHANGED <<gKind, gProfile, gBackend, gResult>>
    /\ UNCHANGED <<workerVars, fleetVars, analyzerVars, rerunVars, ciVars>>

CallDockerfileGenerator == CallGenerate("dockerfile")
CallTrainingScriptGenerator == CallGenerate("training")
CallFastAPIGenerator == CallGenerate("fastapi")
CallAgentGitHubActionsGenerator == CallGenerate("deploy_workflow")
CallKubernetesGenerator == CallGenerate("k8s")
CallGitHubActionsGenerator == CallGenerate("gha_train")
CallGitLabCIGenerator == CallGenerate("gitlab_ci")
CallJenkinsGenerator == CallGenerate("jenkins")

GenNext ==
    \/ CallDockerfileGenerator
    \/ CallTrainingScriptGenerator
    \/ CallFastAPIGenerator
    \/ CallAgentGitHubActionsGenerator
    \/ CallKubernetesGenerator
    \/ CallGitHubActionsGenerator
    \/ CallGitLabCIGenerator
    \/ CallJenkinsGenerator
    \/ CallGenerateAgain

GenSpec == GenInit /\ [][GenNext]_vars

-----------------------------------------------------------------------------
(* workers/src/worker.py: configuration, managers, helpers *)

\* The feature flags (each read from the environment at import) and the
\* managers built from them. A manager that is built is "enabled" or
\* "disabled" as its constructor finds credentials/cluster config or not.
Configs ==
    {c \in [ENABLE_K8S_BUILD : BOOLEAN, ENABLE_TRAINING : BOOLEAN,
            ENABLE_DEPLOYMENT : BOOLEAN, ENABLE_S3_UPLOAD : BOOLEAN,
            ENABLE_GITHUB_PUSH : BOOLEAN, ENABLE_CICD_GENERATION : BOOLEAN,
            k8s_manager : {"None", "enabled", "disabled"},
            s3_manager : {"None", "enabled", "disabled"}] :
        /\ (c.k8s_manager = "None") <=> ~c.ENABLE_K8S_BUILD
        /\ (c.s3_manager = "None") <=> ~c.ENABLE_S3_UPLOAD}

\* training_manager, inference_manager and github_client exist exactly when
\* their flag is set; the first two hold a reference to k8s_manager.
training_manager(c) == IF c.ENABLE_TRAINING THEN "built" ELSE "None"
inference_manager(c) == IF c.ENABLE_DEPLOYMENT THEN "built" ELSE "None"
github_client(c) == IF c.ENABLE_GITHUB_PUSH THEN "built" ELSE "None"

\* The backend configuration: the client cannot be constructed (no API key
\* or unsupported provider), or it can; what each call then does (raise, or
\* return a text) is drawn at the call.
LLMModes == {"unconfigured", "ok"}

\* The analyses RepoAnalyzer can return.
Analyses == {BareProfile, MLProfile}
NoAnalysis == [analysed |-> FALSE]

\* Responses a working backend gives in the pipeline: the well-formed text,
\* bare or fenced (tagged or not), or nothing.
SampleResponses(kind) ==
    {WellFormed(kind),
     <<"F", FenceTag(kind), "NL">> \o WellFormed(kind) \o <<"NL", "F">>,
     <<"F", "NL">> \o WellFormed(kind) \o <<"NL", "F">>,
     <<>>}

PipelineBackends(kind) ==
    {BackendRaises} \cup {BackendReturns(r) : r \in SampleResponses(kind)}

\* The repo_url of the queue messages, as its "/"-separated segments.
RepoUrl == <<"https:", "", "github.com", "user", "Repo_ML.git">>

\* str.lower() and the replacement of non-alphanumerics by "-", on the
\* names that occur.
LowerDashed(name) ==
    CASE name = "Repo_ML" -> "repo-ml"
      [] name = "Repo_ML.git" -> "repo-ml-git"
      [] OTHER -> name

\* sanitize_project_name: the last segment of repo_url.split("/"), ".git"
\* removed, lower-cased, every non-alphanumeric replaced by "-".
sanitize_project_name(repo_url, job_id) ==
    LET last == repo_url[Len(repo_url)]
        name == IF last = "Repo_ML.git" THEN "Repo_ML" ELSE last
    IN LowerDashed(name)

\* The locals of process_job, with the worker's position.
\*   emitted      the statuses update_job_status was called with, in order
\*   tracked      the job's status at the tracking service
\*   staged       the files written under /tmp/automlops-output/<job_id>
\*   ci_configs   the filenames in the dict generate_ci_configs returned
\*   failCause    the step whose exception reached the except clause
\*   deployResult what deploy_inference_api returned
\*   calls        the collaborators invoked, in order
\*   error        len(str(e)) of the exception caught, 0 when none
\*   errorMessage len of the error_message of the last status report
\*   sinkFailures the sinks whose call returned False
\*   deployment_url  process_job's local: "" until the deploy stage sets it
\*   waited       seconds _wait_for_loadbalancer ran before it returned
\*   api_endpoint the api_endpoint sent with the 'completed' report
\*   objects      the keys upload_directory stored in the bucket
\*   model_s3_path   process_job's local, sent with the 'completed' report
\*   ci_urls      the CI configs whose URL local (github_actions_url,
\*                gitlab_ci_url, jenkinsfile_url) has been assigned
FreshRun(job_id) ==
    [pc |-> "start", job |-> job_id, analysis |-> NoAnalysis, cloned |-> FALSE,
     emitted |-> <<>>, tracked |-> "queued", staged |-> {}, ci_configs |-> {},
     failCause |-> "none", deployResult |-> "not_called",
     calls |-> <<>>, error |-> 0, errorMessage |-> 0, sinkFailures |-> {},
     deployment_url |-> "", waited |-> 0, api_endpoint |-> "",
     objects |-> {}, model_s3_path |-> <<>>, ci_urls |-> {}]

IdleWorker == [FreshRun(0) EXCEPT !.pc = "blpop"]

\* Variant of update_job_status without its try/except: a failed request
\* is an exception in process_job.
update_job_status_raising(wr, status, error_message, delivered) ==
    [wr EXCEPT !.emitted = Append(@, status),
               !.errorMessage = error_message,
               !.failCause = IF delivered THEN @ ELSE "report",
               !.tracked = IF delivered THEN status ELSE @]

\* update_job_status: PATCH the status; a failure of the request is logged
\* and swallowed.
update_job_status(wr, status, error_message, delivered) ==
    [wr EXCEPT !.emitted = Append(@, status),
               !.errorMessage = error_message,
               !.tracked = IF delivered THEN status ELSE @]

\* A collaborator is invoked.
Called(wr, name) == [wr EXCEPT !.calls = Append(@, name)]

\* len(str(e)) of the exceptions whose text the code or the interpreter
\* fixes.
ExceptionTextLen(text) ==
    CASE text = "GROQ_API_KEY not set in environment" -> 35
      [] text = "Repository not cloned" -> 21
      [] text = "'list' object has no attribute 'replace'" -> 40
      [] text = "'NoneType' object has no attribute 'get'" -> 40
      [] text = "'NoneType' object has no attribute 'enabled'" -> 44

\* len(str(e)) of an exception raised by an external service: a short text
\* or the longest one.
ExternalErrorLens == {1, MaxErrorLen}

\* An exception leaves the try block of process_job.
\* Variant without the except clause of process_job: the exception leaves
\* process_job and no status is reported for it.
Raised_unhandled(wr, cause, text_len) ==
    [wr EXCEPT !.pc = "returned", !.failCause = cause, !.error = text_len]

Raised(wr, cause, text_len) ==
    [wr EXCEPT !.pc = "except", !.failCause = cause, !.error = text_len]

GenUnused ==
    /\ gKind = "dockerfile"
    /\ gProfile = BareProfile
    /\ gBackend = BackendRaises
    /\ gPhase = "unused"
    /\ gResult = NoResult
    /\ gAgain = NoResult

Init ==
    /\ cfg \in Configs
    /\ llmMode \in LLMModes
    /\ queue = <<>>
    /\ submitted = 0
    /\ w = IdleWorker
    /\ GenUnused
    /\ FleetUnused
    /\ AnalyzerUnused
    /\ RerunUnused
    /\ CiUnused

\* A caller pushes a job message on the queue.
Enqueue ==
    /\ submitted < MaxJobs
    /\ submitted' = submitted + 1
    /\ queue' = Append(queue, submitted + 1)
    /\ UNCHANGED <<cfg, llmMode, w,
                   genVars, fleetVars, analyzerVars, rerunVars, ciVars>>

\* Variant of blpop that takes the newest message of the list.
Dequeue_newest_first ==
    /\ w.pc = "blpop"
    /\ queue # <<>>
    /\ w' = FreshRun(Last(queue))
    /\ queue' = SubSeq(queue, 1, Len(queue) - 1)
    /\ UNCHANGED <<cfg, llmMode, submitted,
                   genVars, fleetVars, analyzerVars, rerunVars, ciVars>>

\* main: blpop returns a message and process_job is called.
Dequeue ==
    /\ w.pc = "blpop"
    /\ queue # <<>>
    /\ w' = FreshRun(Head(queue))
    /\ queue' = Tail(queue)
    /\ UNCHANGED <<cfg, llmMode, submitted,
                   genVars, fleetVars, analyzerVars, rerunVars, ciVars>>

-----------------------------------------------------------------------------
(* workers/src/worker.py: process_job, one action per step *)

\* update_job_status(job_id, "analyzing")
ReportAnalyzing ==
    /\ w.pc = "start"
    /\ \E delivered \in BOOLEAN :
          w' = [update_job_status(w, "analyzing", 0, delivered)
                    EXCEPT !.pc = "llm"]
    /\ UNCHANGED <<cfg, llmMode, queue, submitted,
                   genVars, fleetVars, analyzerVars, rerunVars, ciVars>>

\* llm = LLMClient(): raises ValueError when the provider is unsupported or
\* its API key is not set.
ConstructLLMClient ==
    /\ w.pc = "llm"
    /\ w' = IF llmMode = "unconfigured"
            THEN Raised(w, "llm_client",
                        ExceptionTextLen("GROQ_API_KEY not set in environment"))
            ELSE [w EXCEPT !.pc = "clone"]
    /\ UNCHANGED <<cfg, llmMode, queue, submitted,
                   genVars, fleetVars, analyzerVars, rerunVars, ciVars>>

\* analyzer.clone_repository(): a failed clone is logged and reported by the
\* return value, which process_job ignores.
CloneRepository ==
    /\ w.pc = "clone"
    /\ \E ok \in BOOLEAN :
          w' = [Called(w, "analyzer.clone_repository")
                    EXCEPT !.cloned = ok, !.pc = "analyze"]
    /\ UNCHANGED <<cfg, llmMode, queue, submitted,
                   genVars, fleetVars, analyzerVars, rerunVars, ciVars>>

\* analyzer.analyze_structure(): raises ValueError when there is no clone;
\* then the counts are taken and the output directory is made.
AnalyzeStructure ==
    /\ w.pc = "analyze"
    /\ LET wc == Called(w, "analyzer.analyze_structure")
       IN IF ~w.cloned
          THEN w' = Raised(wc, "analyzer",
                           ExceptionTextLen("Repository not cloned"))
          ELSE \E a \in Analyses :
                  w' = [wc EXCEPT !.analysis = a, !.pc = "report_generating"]
    /\ UNCHANGED <<cfg, llmMode, queue, submitted,
                   genVars, fleetVars, analyzerVars, rerunVars, ciVars>>

\* update_job_status(job_id, "generating")
ReportGenerating ==
    /\ w.pc = "report_generating"
    /\ \E delivered \in BOOLEAN :
          w' = [update_job_status(w, "generating", 0, delivered)
                    EXCEPT !.pc = "gen_dockerfile"]
    /\ UNCHANGED <<cfg, llmMode, queue, submitted,
                   genVars, fleetVars, analyzerVars, rerunVars, ciVars>>

\* Variant that generates and goes on without writing the files.
GenerateAndWrite_without_write(kind, files, next_pc) ==
    \E backend \in PipelineBackends(kind) :
        LET r == Generate(kind, w.analysis,
                          sanitize_project_name(RepoUrl, w.job), backend)
            wc == Called(w, kind)
        IN w' = IF r.raised
                THEN Raised(wc, "generator",
                            ExceptionTextLen(
                                "'list' object has no attribute 'replace'"))
                ELSE [wc EXCEPT !.pc = next_pc]

\* X(llm).generate(analysis) followed by write_text of the files: an
\* exception of generate leaves the try block before anything is written.
GenerateAndWrite(kind, files, next_pc) ==
    \E backend \in PipelineBackends(kind) :
        LET r == Generate(kind, w.analysis,
                          sanitize_project_name(RepoUrl, w.job), backend)
            wc == Called(w, kind)
        IN w' = IF r.raised
                THEN Raised(wc, "generator",
                            ExceptionTextLen(
                                "'list' object has no attribute 'replace'"))
                ELSE [wc EXCEPT !.staged = @ \cup files, !.pc = next_pc]

GenerateDockerfile ==
    /\ w.pc = "gen_dockerfile"
    /\ GenerateAndWrite("dockerfile", {"Dockerfile"}, "gen_training")
    /\ UNCHANGED <<cfg, llmMode, queue, submitted,
                   genVars, fleetVars, analyzerVars, rerunVars, ciVars>>

GenerateTrainingWrapper ==
    /\ w.pc = "gen_training"
    /\ GenerateAndWrite("training", {"training_wrapper.py"}, "gen_fastapi")
    /\ UNCHANGED <<cfg, llmMode, queue, submitted,
                   genVars, fleetVars, analyzerVars, rerunVars, ciVars>>

GenerateFastAPI ==
    /\ w.pc = "gen_fastapi"
    /\ GenerateAndWrite("fastapi", {"app.py"}, "requirements")
    /\ UNCHANGED <<cfg, llmMode, queue, submitted,
                   genVars, fleetVars, analyzerVars, rerunVars, ciVars>>

WriteRequirements ==
    /\ w.pc = "requirements"
    /\ w' = [w EXCEPT !.staged = @ \cup {"requirements.txt"},
                      !.pc = "gen_deploy_workflow"]
    /\ UNCHANGED <<cfg, llmMode, queue, submitted,
                   genVars, fleetVars, analyzerVars, rerunVars, ciVars>>

\* if ENABLE_CICD_GENERATION: the deploy workflow ...
GenerateDeployWorkflow ==
    /\ w.pc = "gen_deploy_workflow"
    /\ IF cfg.ENABLE_CICD_GENERATION
       THEN GenerateAndWrite("deploy_workflow",
                             {".github/workflows/deploy.yml"}, "gen_k8s")
       ELSE w' = [w EXCEPT !.pc = "ci"]
    /\ UNCHANGED <<cfg, llmMode, queue, submitted,
                   genVars, fleetVars, analyzerVars, rerunVars, ciVars>>

\* ... and the Kubernetes manifests.
GenerateK8sManifests ==
    /\ w.pc = "gen_k8s"
    /\ GenerateAndWrite("k8s", {"k8s/deployment.yaml", "k8s/service.yaml"},
                        "ci")
    /\ UNCHANGED <<cfg, llmMode, queue, submitted,
                   genVars, fleetVars, analyzerVars, rerunVars, ciVars>>

\* configs[key] = value on a dict.
Put(configs, key, value) ==
    [k \in DOMAIN configs \cup {key} |->
        IF k = key THEN value ELSE configs[k]]

\* One of the try blocks of generate_ci_configs: the generator is built,
\* generate() is called and its result stored under get_filename(); an
\* exception is logged and leaves configs as it was.
TryGenerator(configs, kind, filename, analysis_data, backend) ==
    LET r == Generate(kind, analysis_data, "", backend)
    IN IF r.raised THEN configs ELSE Put(configs, filename, r.contents[1])

\* Variant with the three generators in one try block: the first
\* exception ends the function with what it has.
generate_ci_configs_in_one_try(analysis_data, gha, gitlab, jenkins) ==
    LET g1 == Generate("gha_train", analysis_data, "", gha)
        g2 == Generate("gitlab_ci", analysis_data, "", gitlab)
        g3 == Generate("jenkins", analysis_data, "", jenkins)
        c1 == Put(<<>>, GHA_get_filename, g1.contents[1])
        c2 == Put(c1, GitLab_get_filename, g2.contents[1])
    IN IF g1.raised THEN <<>>
       ELSE IF g2.raised THEN c1
       ELSE IF g3.raised THEN c2
       ELSE Put(c2, Jenkins_get_filename, g3.contents[1])

\* generate_ci_configs: each of the three generators in its own try block,
\* one after the other; the dict {filename: content} of those that did not
\* raise.
generate_ci_configs(analysis_data, gha, gitlab, jenkins) ==
    LET c1 == TryGenerator(<<>>, "gha_train", GHA_get_filename,
                           analysis_data, gha)
        c2 == TryGenerator(c1, "gitlab_ci", GitLab_get_filename,
                           analysis_data, gitlab)
    IN TryGenerator(c2, "jenkins", Jenkins_get_filename,
                    analysis_data, jenkins)

\* The upload loop of the CI block: s3_manager.upload_file(file_path=...,
\* s3_key=...) names a parameter upload_file does not have (local_path):
\* TypeError at the first config, before upload_file is entered and before
\* any URL local is assigned. No config, no call.
upload_ci_configs(c, configs) ==
    IF c.ENABLE_S3_UPLOAD /\ c.s3_manager # "None" /\ configs # {}
    THEN [raised |-> TRUE, urls |-> {}]
    ELSE [raised |-> FALSE, urls |-> {}]

\* Variant of the guard that lets a stage run whatever its flag.
StageEnabled_always(flag, manager) == TRUE

\* if FLAG and manager: the guard of the publish, upload and deploy stages.
StageEnabled(flag, manager) == flag /\ manager # "None"

\* Variant of the block without its try/except: the TypeError of the upload
\* loop leaves process_job's try block.
GenerateCIConfigs_without_except ==
    /\ w.pc = "ci"
    /\ IF cfg.ENABLE_CICD_GENERATION
       THEN \E gha \in PipelineBackends("gha_train"),
               gitlab \in PipelineBackends("gitlab_ci"),
               jenkins \in PipelineBackends("jenkins") :
               LET configs == DOMAIN generate_ci_configs(w.analysis, gha,
                                                         gitlab, jenkins)
                   up == upload_ci_configs(cfg, configs)
                   wc == [w EXCEPT !.ci_configs = configs,
                                   !.staged = @ \cup configs,
                                   !.ci_urls = up.urls,
                                   !.calls = @ \o <<"gha_train", "gitlab_ci",
                                                    "jenkins">>]
               IN w' = IF up.raised THEN Raised(wc, "ci", 1)
                       ELSE [wc EXCEPT !.pc = "push"]
       ELSE w' = [w EXCEPT !.pc = "push"]
    /\ UNCHANGED <<cfg, llmMode, queue, submitted,
                   genVars, fleetVars, analyzerVars, rerunVars, ciVars>>

\* The second if ENABLE_CICD_GENERATION block: generate the CI configs,
\* write them, and upload them when storage upload is on. upload_file is
\* called with a keyword it does not have (file_path): TypeError at the
\* call of the first config, before upload_file is entered, caught by the
\* block's own except; nothing leaves the block.
GenerateCIConfigs ==
    /\ w.pc = "ci"
    /\ IF cfg.ENABLE_CICD_GENERATION
       THEN \E gha \in PipelineBackends("gha_train"),
               gitlab \in PipelineBackends("gitlab_ci"),
               jenkins \in PipelineBackends("jenkins") :
               LET configs == DOMAIN generate_ci_configs(w.analysis, gha,
                                                         gitlab, jenkins)
                   up == upload_ci_configs(cfg, configs)
               IN w' = [w EXCEPT !.ci_configs = configs,
                                 !.staged = @ \cup configs,
                                 !.ci_urls = up.urls,
                                 !.calls = @ \o <<"gha_train", "gitlab_ci",
                                                  "jenkins">>,
                                 !.pc = "push"]
       ELSE w' = [w EXCEPT !.pc = "push"]
    /\ UNCHANGED <<cfg, llmMode, queue, submitted,
                   genVars, fleetVars, analyzerVars, rerunVars, ciVars>>

\* if ENABLE_GITHUB_PUSH and github_client: create_repository raises on an
\* API or network error; push_code reports failure by its return value,
\* which process_job ignores.
PushToGitHub ==
    /\ w.pc = "push"
    /\ IF StageEnabled(cfg.ENABLE_GITHUB_PUSH, github_client(cfg))
       THEN LET wc == Called(w, "github_client.create_repository")
            IN \/ \E text_len \in ExternalErrorLens :
                     w' = Raised(wc, "publish", text_len)
               \/ \E pushed \in BOOLEAN :
                     w' = [Called(wc, "github_client.push_code")
                               EXCEPT !.pc = "upload",
                                      !.sinkFailures =
                                          IF pushed THEN @
                                          ELSE @ \cup {"publish"}]
       ELSE w' = [w EXCEPT !.pc = "upload"]
    /\ UNCHANGED <<cfg, llmMode, queue, submitted,
                   genVars, fleetVars, analyzerVars, rerunVars, ciVars>>

\* What git keeps in the directory it works in, by the file that holds the
\* remote URL (with the token, once push_code has set the remote).
GitMetadata == {".git/config"}

\* The files under output_dir: those process_job wrote and, once push_code
\* has run there, git's own (git init is its first command).
DirectoryFiles(wr) ==
    wr.staged \cup (IF InList("github_client.push_code", wr.calls)
                    THEN GitMetadata ELSE {})

\* s3_key = f"{s3_prefix}/{relative_path}".replace("\\", "/"), a key being
\* a sequence of tokens and a staged path one token.
s3_key(s3_prefix, relative_path) ==
    LET key == s3_prefix \o <<"/", relative_path>>
    IN [k \in 1..Len(key) |-> IF key[k] = "\\" THEN "/" ELSE key[k]]

\* model_s3_path = f"s3://{S3_BUCKET}/{prefix}"
S3Path(prefix) == <<"s3:", "", "S3_BUCKET", "/">> \o prefix

\* prefix = f"jobs/{job_id}", the job id formatted as text.
JobPrefix(job_id) == <<"jobs", "/", ToString(job_id)>>

\* Which puts the object store refuses (ClientError) during one
\* upload_directory: none, the first file's, or all.
Refusals(files) == {{}, files \cap {"Dockerfile"}, files}

\* S3Manager.upload_directory: False at once when the manager is disabled;
\* otherwise upload_file for every file under the directory, a refused put
\* being skipped (upload_file returns False), and the keys of the others
\* collected; the result is whether any was stored.
upload_directory(manager, files, s3_prefix, refused) ==
    LET uploaded_files ==
            IF manager = "enabled"
            THEN {s3_key(s3_prefix, f) : f \in files \ refused}
            ELSE {}
    IN [stored |-> uploaded_files, result |-> uploaded_files # {}]

\* if ENABLE_S3_UPLOAD and s3_manager: upload_directory walks output_dir
\* with rglob("*"), hidden directories included; its result is not looked
\* at; an exception of the client other than ClientError passes
\* through upload_file and upload_directory.
UploadToS3 ==
    /\ w.pc = "upload"
    /\ IF StageEnabled(cfg.ENABLE_S3_UPLOAD, cfg.s3_manager)
       THEN LET wc == Called(w, "s3_manager.upload_directory")
            IN \/ /\ cfg.s3_manager = "enabled"
                  /\ \E text_len \in ExternalErrorLens :
                        w' = Raised(wc, "upload", text_len)
               \/ \E refused \in Refusals(DirectoryFiles(w)) :
                     LET up == upload_directory(cfg.s3_manager,
                                                DirectoryFiles(w),
                                                JobPrefix(w.job), refused)
                     IN w' = [wc EXCEPT !.pc = "deploy",
                                        !.objects = up.stored,
                                        !.model_s3_path =
                                            S3Path(JobPrefix(w.job)),
                                        !.sinkFailures =
                                            IF up.result THEN @
                                            ELSE @ \cup {"upload"}]
       ELSE w' = [w EXCEPT !.pc = "deploy"]
    /\ UNCHANGED <<cfg, llmMode, queue, submitted,
                   genVars, fleetVars, analyzerVars, rerunVars, ciVars>>

\* InferenceManager.deploy_inference_api: reads self.k8s.enabled
\* (AttributeError when k8s_manager is None); returns None when Kubernetes
\* is not configured, the template is missing or the API refuses; returns
\* a dict with the endpoint otherwise; other exceptions pass through.
deploy_inference_api(c) ==
    IF c.k8s_manager = "None" THEN {"raised"}
    ELSE IF c.k8s_manager = "disabled" THEN {"None"}
    ELSE {"None", "dict", "raised"}

\* _wait_for_loadbalancer(service_name, timeout=300) and the sleep between
\* two reads of the service.
LoadBalancerTimeout == 300
LoadBalancerPollSeconds == 10

\* monitor_training_job(job_name, timeout=3600) and its sleep.
TrainingTimeout == 3600
TrainingPollSeconds == 30

\* What the cluster does while a loop polls it: the awaited result appears
\* `at` seconds after the loop started, or the read raises ApiException
\* from then on, or neither ever happens.
ClusterEvents ==
    {[kind |-> "never", at |-> 0]}
    \cup {[kind |-> k, at |-> t] : k \in {"ready", "api_error"},
                                   t \in {0, 25}}

\* Seconds one read of the cluster takes.
CallSeconds == {0, 7}

\* The while loop of _wait_for_loadbalancer after `elapsed` seconds:
\* time.time() - start_time < timeout is tested before each read; an
\* ingress ends the loop with its address, ApiException breaks out of it,
\* otherwise the loop sleeps and tests again. After the loop the pending
\* address is returned.
RECURSIVE PollLoadBalancer(_, _, _, _)
PollLoadBalancer(elapsed, timeout, event, call_seconds) ==
    IF ~(elapsed < timeout)
    THEN [endpoint |-> "pending", elapsed |-> elapsed]
    ELSE IF event.kind = "api_error" /\ event.at <= elapsed
    THEN [endpoint |-> "pending", elapsed |-> elapsed + call_seconds]
    ELSE IF event.kind = "ready" /\ event.at <= elapsed
    THEN [endpoint |-> "ready", elapsed |-> elapsed + call_seconds]
    ELSE PollLoadBalancer(elapsed + call_seconds + LoadBalancerPollSeconds,
                          timeout, event, call_seconds)

\* Variant that goes on polling for twice the timeout.
wait_for_loadbalancer_twice_as_long(event, call_seconds) ==
    PollLoadBalancer(0, 2 * LoadBalancerTimeout, event, call_seconds)

\* InferenceManager._wait_for_loadbalancer as deploy_inference_api calls
\* it, with the default timeout.
wait_for_loadbalancer(event, call_seconds) ==
    PollLoadBalancer(0, LoadBalancerTimeout, event, call_seconds)

\* One turn of the while loop of monitor_training_job on the loop's
\* state: get_job_status gives "completed" or "failed" once the job has
\* ended, "running", "pending" or None (ApiException) before; only the
\* first two end the loop early. A loop that has returned stays as it is.
MonitorTurn(s, timeout, event, call_seconds) ==
    IF s.status # "polling" THEN s
    ELSE IF ~(s.elapsed < timeout)
    THEN [status |-> "timeout", elapsed |-> s.elapsed]
    ELSE IF event.kind = "ready" /\ event.at <= s.elapsed
    THEN [status |-> "completed", elapsed |-> s.elapsed + call_seconds]
    ELSE [status |-> "polling",
          elapsed |-> s.elapsed + call_seconds + TrainingPollSeconds]

\* Sixteen turns in a row.
MonitorTurns2(s, timeout, event, call_seconds) ==
    MonitorTurn(MonitorTurn(s, timeout, event, call_seconds),
                timeout, event, call_seconds)
MonitorTurns4(s, timeout, event, call_seconds) ==
    MonitorTurns2(MonitorTurns2(s, timeout, event, call_seconds),
                  timeout, event, call_seconds)
MonitorTurns16(s, timeout, event, call_seconds) ==
    LET s4 == MonitorTurns4(s, timeout, event, call_seconds)
        s8 == MonitorTurns4(s4, timeout, event, call_seconds)
        s12 == MonitorTurns4(s8, timeout, event, call_seconds)
    IN MonitorTurns4(s12, timeout, event, call_seconds)

\* The while loop of monitor_training_job, run until it returns.
RECURSIVE PollTrainingJob(_, _, _, _)
PollTrainingJob(s, timeout, event, call_seconds) ==
    IF s.status # "polling" THEN s
    ELSE PollTrainingJob(MonitorTurns16(s, timeout, event, call_seconds),
                         timeout, event, call_seconds)

\* TrainingManager.monitor_training_job with the default timeout; None
\* when Kubernetes is not configured.
monitor_training_job(k8s_enabled, event, call_seconds) ==
    IF ~k8s_enabled THEN [status |-> "None", elapsed |-> 0]
    ELSE PollTrainingJob([status |-> "polling", elapsed |-> 0],
                         TrainingTimeout, event, call_seconds)

\* if ENABLE_DEPLOYMENT and inference_manager: result.get("endpoint") is
\* called on whatever deploy_inference_api returned; None has no .get. A
\* dict carries the endpoint _wait_for_loadbalancer returned.
Deploy ==
    /\ w.pc = "deploy"
    /\ IF StageEnabled(cfg.ENABLE_DEPLOYMENT, inference_manager(cfg))
       THEN \E result \in deploy_inference_api(cfg) :
               LET wc == [Called(w, "inference_manager.deploy_inference_api")
                              EXCEPT !.deployResult = result]
               IN CASE result = "dict" ->
                         \E event \in ClusterEvents,
                            call_seconds \in CallSeconds :
                            LET lb == wait_for_loadbalancer(event,
                                                            call_seconds)
                            IN w' = [wc EXCEPT !.pc = "complete",
                                               !.deployment_url = lb.endpoint,
                                               !.waited = lb.elapsed]
                    [] result = "None" ->
                         w' = Raised(wc, "deploy", ExceptionTextLen(
                                  "'NoneType' object has no attribute 'get'"))
                    [] result = "raised" ->
                         IF cfg.k8s_manager = "None"
                         THEN w' = Raised(wc, "deploy", ExceptionTextLen(
                                  "'NoneType' object has no attribute 'enabled'"))
                         ELSE \E text_len \in ExternalErrorLens :
                                 w' = Raised(wc, "deploy", text_len)
       ELSE w' = [w EXCEPT !.pc = "complete"]
    /\ UNCHANGED <<cfg, llmMode, queue, submitted,
                   genVars, fleetVars, analyzerVars, rerunVars, ciVars>>

\* Variant in which an exception follows the 'completed' report inside the
\* try block.
ReportCompleted_then_raises ==
    /\ w.pc = "complete"
    /\ \E delivered \in BOOLEAN :
          w' = Raised(update_job_status(w, "completed", 0, delivered),
                      "report", 1)
    /\ UNCHANGED <<cfg, llmMode, queue, submitted,
                   genVars, fleetVars, analyzerVars, rerunVars, ciVars>>

\* update_job_status(job_id, "completed", ...)
ReportCompleted ==
    /\ w.pc = "complete"
    /\ \E delivered \in BOOLEAN :
          w' = [update_job_status(w, "completed", 0, delivered)
                    EXCEPT !.pc = "returned",
                           !.api_endpoint = w.deployment_url]
    /\ UNCHANGED <<cfg, llmMode, queue, submitted,
                   genVars, fleetVars, analyzerVars, rerunVars, ciVars>>

\* Variant of the except clause that reports 'failed' without the text of
\* the exception.
HandleException_without_text ==
    /\ w.pc = "except"
    /\ \E delivered \in BOOLEAN :
          w' = [update_job_status(w, "failed", 0, delivered)
                    EXCEPT !.pc = "returned"]
    /\ UNCHANGED <<cfg, llmMode, queue, submitted,
                   genVars, fleetVars, analyzerVars, rerunVars, ciVars>>

\* except Exception as e: update_job_status(job_id, "failed", str(e))
HandleException ==
    /\ w.pc = "except"
    /\ \E delivered \in BOOLEAN :
          w' = [update_job_status(w, "failed", w.error, delivered)
                    EXCEPT !.pc = "returned"]
    /\ UNCHANGED <<cfg, llmMode, queue, submitted,
                   genVars, fleetVars, analyzerVars, rerunVars, ciVars>>

\* Variant of main in which a job that ended 'failed' ends the loop.
ReturnToLoop_stops_after_failure ==
    /\ w.pc = "returned"
    /\ w' = [w EXCEPT !.pc = IF Last(w.emitted) = "failed"
                              THEN "exited" ELSE "blpop"]
    /\ UNCHANGED <<cfg, llmMode, queue, submitted,
                   genVars, fleetVars, analyzerVars, rerunVars, ciVars>>

\* process_job returns and main goes back to blpop.
ReturnToLoop ==
    /\ w.pc = "returned"
    /\ w' = [w EXCEPT !.pc = "blpop"]
    /\ UNCHANGED <<cfg, llmMode, queue, submitted,
                   genVars, fleetVars, analyzerVars, rerunVars, ciVars>>

\* The steps of the worker process: main's loop and process_job.
WorkerStep ==
    \/ Dequeue
    \/ ReportAnalyzing
    \/ ConstructLLMClient
    \/ CloneRepository
    \/ AnalyzeStructure
    \/ ReportGenerating
    \/ GenerateDockerfile
    \/ GenerateTrainingWrapper
    \/ GenerateFastAPI
    \/ WriteRequirements
    \/ GenerateDeployWorkflow
    \/ GenerateK8sManifests
    \/ GenerateCIConfigs
    \/ PushToGitHub
    \/ UploadToS3
    \/ Deploy
    \/ ReportCompleted
    \/ HandleException
    \/ ReturnToLoop

Next == Enqueue \/ WorkerStep

Spec == Init /\ [][Next]_vars

\* The configurations of the runs followed to their end: the optional
\* stages other than the build switched together, the build on only with
\* them, so that every stage is run and skipped, with every state of the
\* managers.
LiveConfigs ==
    {c \in Configs :
        /\ c.ENABLE_TRAINING = c.ENABLE_DEPLOYMENT
        /\ c.ENABLE_S3_UPLOAD = c.ENABLE_DEPLOYMENT
        /\ c.ENABLE_GITHUB_PUSH = c.ENABLE_DEPLOYMENT
        /\ c.ENABLE_CICD_GENERATION = c.ENABLE_DEPLOYMENT
        /\ c.ENABLE_K8S_BUILD => c.ENABLE_DEPLOYMENT}

LiveInit == Init /\ cfg \in LiveConfigs

\* The worker process keeps running: every call it makes returns or raises
\* (the polls and requests carry timeouts), so a step of the worker that
\* stays possible is taken.
LiveSpec == LiveInit /\ [][Next]_vars /\ WF_vars(WorkerStep)

-----------------------------------------------------------------------------
(* workers/src/worker.py: main, run by several processes on one queue *)

\* How many messages the callers push, and how many worker processes pop.
MaxMessages == 3
NumInstances == 2

Instances == 1..NumInstances
Messages == 1..MaxMessages

\* A worker process at the top of main's loop, holding no job.
AtBlpop == [pc |-> "blpop", job |-> 0]

\* What the data of a message can be: the JSON object with both fields,
\* text that is not JSON, or an object lacking one of the fields.
Bodies == {"job", "invalid_json", "no_job_id", "no_repo_url"}

\* msg = json.loads(data) and the arguments msg["job_id"], msg["repo_url"]
\* of the call: JSONDecodeError or KeyError before process_job is entered,
\* or the call is made.
ParseMessage(body) ==
    CASE body = "job" -> Ret("process_job")
      [] body = "invalid_json" -> Raise("JSONDecodeError")
      [] body \in {"no_job_id", "no_repo_url"} -> Raise("KeyError")

FleetInit ==
    /\ fleetQueue = <<>>
    /\ sent = 0
    /\ instances = [i \in Instances |-> AtBlpop]
    /\ deliveries = [m \in Messages |-> 0]
    /\ finished = {}
    /\ lost = {}
    /\ bodies = [m \in Messages |-> "unsent"]
    /\ dropped = {}
    /\ GenUnused
    /\ WorkerUnused
    /\ AnalyzerUnused
    /\ RerunUnused
    /\ CiUnused

\* A caller pushes a job message on the list.
Push ==
    /\ sent < MaxMessages
    /\ sent' = sent + 1
    /\ fleetQueue' = Append(fleetQueue, sent + 1)
    /\ \E body \in Bodies : bodies' = [bodies EXCEPT ![sent + 1] = body]
    /\ UNCHANGED <<instances, deliveries, finished, lost, dropped,
                   genVars, workerVars, analyzerVars, rerunVars, ciVars>>

\* What main does with the message blpop returned to worker i: process_job
\* is called, or the exception of the parse is caught by main's except
\* clause, logged, and the worker sleeps.
Received(i, m) ==
    IF ParseMessage(bodies[m]).raised
    THEN /\ instances' = [instances EXCEPT ![i] = [pc |-> "sleep", job |-> 0]]
         /\ dropped' = dropped \cup {<<m, i>>}
    ELSE /\ instances' = [instances EXCEPT
                             ![i] = [pc |-> "process_job", job |-> m]]
         /\ dropped' = dropped

\* Variant of blpop that reads the head of the list and leaves it there.
Blpop_without_removal(i) ==
    /\ instances[i].pc = "blpop"
    /\ fleetQueue # <<>>
    /\ deliveries[Head(fleetQueue)] < NumInstances
    /\ Received(i, Head(fleetQueue))
    /\ deliveries' = [deliveries EXCEPT ![Head(fleetQueue)] = @ + 1]
    /\ UNCHANGED <<fleetQueue, sent, finished, lost, bodies,
                   genVars, workerVars, analyzerVars, rerunVars, ciVars>>

\* Variant of main without its try/except: the exception of the parse ends
\* the process.
Blpop_without_except(i) ==
    /\ instances[i].pc = "blpop"
    /\ fleetQueue # <<>>
    /\ IF ParseMessage(bodies[Head(fleetQueue)]).raised
       THEN instances' = [instances EXCEPT ![i] = [pc |-> "exited", job |-> 0]]
       ELSE instances' = [instances EXCEPT
                             ![i] = [pc |-> "process_job",
                                     job |-> Head(fleetQueue)]]
    /\ deliveries' = [deliveries EXCEPT ![Head(fleetQueue)] = @ + 1]
    /\ fleetQueue' = Tail(fleetQueue)
    /\ UNCHANGED <<sent, finished, lost, bodies, dropped,
                   genVars, workerVars, analyzerVars, rerunVars, ciVars>>

\* redis_client.blpop(JOB_QUEUE_KEY, timeout=5) with a message on the
\* list: Redis pops the head and returns it to this one client; main then
\* parses it and calls process_job. On an empty list blpop returns None
\* after the timeout and the loop repeats, which changes nothing.
Blpop(i) ==
    /\ instances[i].pc = "blpop"
    /\ fleetQueue # <<>>
    /\ Received(i, Head(fleetQueue))
    /\ deliveries' = [deliveries EXCEPT ![Head(fleetQueue)] = @ + 1]
    /\ fleetQueue' = Tail(fleetQueue)
    /\ UNCHANGED <<sent, finished, lost, bodies,
                   genVars, workerVars, analyzerVars, rerunVars, ciVars>>

\* time.sleep(5) in main's except clause returns and the loop goes on.
SleepReturns(i) ==
    /\ instances[i].pc = "sleep"
    /\ instances' = [instances EXCEPT ![i] = AtBlpop]
    /\ UNCHANGED <<fleetQueue, sent, deliveries, finished, lost, bodies,
                   dropped,
                   genVars, workerVars, analyzerVars, rerunVars, ciVars>>

\* process_job returns, having reported 'completed' or 'failed', and main
\* goes back to blpop. Nothing in main or process_job writes to the list.
ProcessJobReturns(i) ==
    /\ instances[i].pc = "process_job"
    /\ finished' = finished \cup {instances[i].job}
    /\ instances' = [instances EXCEPT ![i] = AtBlpop]
    /\ UNCHANGED <<fleetQueue, sent, deliveries, lost, bodies, dropped,
                   genVars, workerVars, analyzerVars, rerunVars, ciVars>>

\* The process dies (killed, out of memory, host lost). Inside process_job
\* its job is gone with it.
Crash(i) ==
    /\ instances[i].pc \in {"blpop", "process_job", "sleep"}
    /\ lost' = IF instances[i].pc = "process_job"
               THEN lost \cup {instances[i].job} ELSE lost
    /\ instances' = [instances EXCEPT ![i] = [pc |-> "crashed", job |-> 0]]
    /\ UNCHANGED <<fleetQueue, sent, deliveries, finished, bodies, dropped,
                   genVars, workerVars, analyzerVars, rerunVars, ciVars>>

\* The process is started again: main begins at the top of its loop and
\* knows nothing of the earlier process.
Restart(i) ==
    /\ instances[i].pc = "crashed"
    /\ instances' = [instances EXCEPT ![i] = AtBlpop]
    /\ UNCHANGED <<fleetQueue, sent, deliveries, finished, lost, bodies,
                   dropped,
                   genVars, workerVars, analyzerVars, rerunVars, ciVars>>

FleetNext ==
    \/ Push
    \/ \E i \in Instances : Blpop(i)
    \/ \E i \in Instances : SleepReturns(i)
    \/ \E i \in Instances : ProcessJobReturns(i)
    \/ \E i \in Instances : Crash(i)
    \/ \E i \in Instances : Restart(i)

FleetSpec == FleetInit /\ [][FleetNext]_vars

-----------------------------------------------------------------------------
(* agent/src/analyzer/repo_analyzer.py: RepoAnalyzer.analyze_structure *)

\* A file of the clone is its directory relative to the repository (the
\* sequence of directory names, empty for the root) and its name; a name is
\* a sequence of tokens, the extension with its dot being the last one.

\* How many files a drawn repository holds at most.
MaxFiles == 3

\* The files repositories are drawn from, in the order os.walk yields them.
FileUniverse ==
    << [dir |-> <<>>, name |-> <<"setup", ".py">>],
       [dir |-> <<>>, name |-> <<"pyproject", ".toml">>],
       [dir |-> <<>>, name |-> <<"README", ".txt">>],
       [dir |-> <<>>, name |-> <<"README", ".md">>],
       [dir |-> <<>>, name |-> <<"LICENSE">>],
       [dir |-> <<>>, name |-> <<"config", ".json">>],
       [dir |-> <<>>, name |-> <<"analysis", ".ipynb">>],
       [dir |-> <<>>, name |-> <<"model", ".pth">>],
       [dir |-> <<"data">>, name |-> <<"train", ".csv">>],
       [dir |-> <<"results">>, name |-> <<"run", ".csv">>],
       [dir |-> <<"src">>, name |-> <<"train", ".py">>],
       [dir |-> <<".git">>, name |-> <<"config">>],
       [dir |-> <<"venv", "lib">>, name |-> <<"site", ".py">>],
       [dir |-> <<"docs">>, name |-> <<"readme", ".rst">>] >>

\* The k-th smallest element of a set of numbers.
Nth(S, k) == CHOOSE x \in S : Cardinality({y \in S : y < x}) = k - 1

\* The clone directories drawn: one that does not exist, and every
\* selection of at most MaxFiles files of the universe (the empty one too).
Repositories ==
    {[exists |-> FALSE, files |-> <<>>]}
    \cup {[exists |-> TRUE,
           files |-> [k \in 1..Cardinality(S) |-> FileUniverse[Nth(S, k)]]] :
             S \in {T \in SUBSET (1..Len(FileUniverse)) :
                       Cardinality(T) <= MaxFiles}}

\* dirs[:] = [d for d in dirs if d not in [...]]: os.walk does not descend
\* into these directories, at any depth.
SkippedDirs == {".git", "__pycache__", "node_modules", ".venv", "venv", "env"}

Walked(files) ==
    SelectSeq(files, LAMBDA f : \A k \in 1..Len(f.dir) :
                                    f.dir[k] \notin SkippedDirs)

\* str.lower() on the tokens that have upper-case letters.
Lower(t) ==
    CASE t = "README" -> "readme"
      [] t = "LICENSE" -> "license"
      [] OTHER -> t

\* file.endswith(suffixes): the extension is the last token of the name.
EndsWith(name, suffixes) == Last(name) \in suffixes

\* 'data' in str(rel_root).lower(): the directory names that contain it.
HasData(dir) == \E k \in 1..Len(dir) : Lower(dir[k]) \in {"data"}

EntryPointNames ==
    {<<"train", ".py">>, <<"main", ".py">>, <<"run", ".py">>,
     <<"model", ".py">>}
RequirementsNames ==
    {<<"requirements", ".txt">>, <<"environment", ".yml">>, <<"Pipfile">>,
     <<"pyproject", ".toml">>, <<"setup", ".py">>}
ConfigSuffixes == {".yaml", ".yml", ".json", ".toml", ".ini"}
ModelSuffixes == {".pth", ".pt", ".h5", ".pkl", ".joblib", ".onnx", ".pb"}
DataSuffixes == {".csv", ".json", ".parquet", ".txt", ".xml"}

\* The analysis dict before the walk.
EmptyAnalysis ==
    [python_files |-> <<>>, notebooks |-> <<>>, requirements_files |-> <<>>,
     config_files |-> <<>>, model_files |-> <<>>, data_files |-> <<>>,
     readme |-> <<>>, entry_points |-> <<>>]

\* The body of the loop over files: the if/elif chain for one file. readme
\* is one slot, written as a sequence of at most one path (None is <<>>).
AnalyzeFile(analysis, f) ==
    IF EndsWith(f.name, {".py"})
    THEN [analysis EXCEPT
             !.python_files = Append(@, f),
             !.entry_points = IF f.name \in EntryPointNames
                              THEN Append(@, f) ELSE @]
    ELSE IF EndsWith(f.name, {".ipynb"})
    THEN [analysis EXCEPT !.notebooks = Append(@, f)]
    ELSE IF f.name \in RequirementsNames
    THEN [analysis EXCEPT !.requirements_files = Append(@, f)]
    ELSE IF EndsWith(f.name, ConfigSuffixes)
    THEN [analysis EXCEPT !.config_files = Append(@, f)]
    ELSE IF EndsWith(f.name, ModelSuffixes)
    THEN [analysis EXCEPT !.model_files = Append(@, f)]
    ELSE IF EndsWith(f.name, DataSuffixes)
    THEN IF HasData(f.dir)
         THEN [analysis EXCEPT !.data_files = Append(@, f)]
         ELSE analysis
    ELSE IF Lower(f.name[1]) = "readme"
    THEN [analysis EXCEPT !.readme = <<f>>]
    ELSE analysis

\* The loops over os.walk and over the files of each directory.
RECURSIVE WalkFiles(_, _)
WalkFiles(analysis, files) ==
    IF files = <<>> THEN analysis
    ELSE WalkFiles(AnalyzeFile(analysis, Head(files)), Tail(files))

\* analyze_structure: ValueError when repo_path is unset or does not exist,
\* the analysis otherwise.
analyze_structure(repo) ==
    IF ~repo.exists THEN Raise("Repository not cloned")
    ELSE Ret(WalkFiles(EmptyAnalysis, Walked(repo.files)))

AnalyzeInit ==
    /\ aRepo \in Repositories
    /\ aPhase = "input"
    /\ aResult = Raise("not called")
    /\ GenUnused
    /\ WorkerUnused
    /\ FleetUnused
    /\ RerunUnused
    /\ CiUnused

CallAnalyzeStructure ==
    /\ aPhase = "input"
    /\ aResult' = analyze_structure(aRepo)
    /\ aPhase' = "returned"
    /\ UNCHANGED <<aRepo, genVars, workerVars, fleetVars, rerunVars, ciVars>>

AnalyzeNext == CallAnalyzeStructure

AnalyzeSpec == AnalyzeInit /\ [][AnalyzeNext]_vars

-----------------------------------------------------------------------------
(* workers/src/worker.py (process_job) with the directories it and         *)
(* RepoAnalyzer keep between jobs: one worker given several messages, each *)
(* process_job taken as one step on the worker's disk. The collaborators   *)
(* answer every run the same way (behaviour); ENABLE_CICD_GENERATION is    *)
(* off.                                                                    *)

\* How many messages the worker is given.
MaxRuns == 2

\* The repo_url values of the messages, as their "/"-separated segments;
\* none ends in "/", so rstrip('/') leaves them as they are.
AliceModelGit == <<"https:", "", "github.com", "alice", "model.git">>
BobModel == <<"https:", "", "github.com", "bob", "model">>
BobOtherGit == <<"https:", "", "github.com", "bob", "other.git">>
RepoUrls == {AliceModelGit, BobModel, BobOtherGit}

\* str.replace('.git', '') on the segments that occur.
WithoutDotGit(segment) ==
    CASE segment = "model.git" -> "model"
      [] segment = "other.git" -> "other"
      [] OTHER -> segment

\* The repository a URL names at the hosting service: owner and name.
RepositoryOf(repo_url) == <<repo_url[4], WithoutDotGit(repo_url[5])>>
Origins == {RepositoryOf(u) : u \in RepoUrls}

\* repo_name = self.repo_url.rstrip('/').split('/')[-1].replace('.git', '')
repo_name(repo_url) == WithoutDotGit(repo_url[Len(repo_url)])
DirNames == {repo_name(u) : u \in RepoUrls}

\* No clone under a name; no analysis.
Absent == <<>>

JobIds == {"job-a", "job-b"}
JobMessages == [job_id : JobIds, repo_url : RepoUrls]

\* The steps of process_job in which a collaborator can raise.
CoreKinds == {"dockerfile", "training", "fastapi"}
RaisingSteps ==
    {"llm_client"} \cup CoreKinds \cup {"cicd", "publish", "upload", "deploy"}

\* The flags, the repositories git cannot fetch, the step whose collaborator
\* raises (if any), and whether git push succeeds.
Behaviours ==
    [ENABLE_CICD_GENERATION : BOOLEAN, ENABLE_GITHUB_PUSH : BOOLEAN,
     ENABLE_S3_UPLOAD : BOOLEAN, ENABLE_DEPLOYMENT : BOOLEAN,
     unreachable : {{}} \cup {{o} : o \in Origins},
     raising : {"none"} \cup RaisingSteps,
     pushed : BOOLEAN]

\* A directory tree: path |-> what the file holds.
EmptyTree == [p \in {} |-> <<>>]

\* A job's directory under /tmp/automlops-output: its files, and the .git
\* directory git keeps in it with the tree of the last commit.
NoGit == [exists |-> FALSE, head |-> EmptyTree]
NoDirectory == [exists |-> FALSE, files |-> EmptyTree, git |-> NoGit]

\* clone_repository: a directory of that name is taken as the clone,
\* whatever was cloned there; otherwise Repo.clone_from, whose failure is
\* returned as False (git removes what it had created).
clone_repository(dirs, repo_url, unreachable) ==
    LET name == repo_name(repo_url)
    IN IF dirs[name] # Absent
       THEN [dirs |-> dirs, result |-> TRUE]
       ELSE IF RepositoryOf(repo_url) \in unreachable
       THEN [dirs |-> dirs, result |-> FALSE]
       ELSE [dirs |-> [dirs EXCEPT ![name] = RepositoryOf(repo_url)],
             result |-> TRUE]

\* analyze_structure on self.repo_path: ValueError when it does not exist,
\* otherwise the analysis of what the directory holds.
analyze_repo_path(dirs, repo_url) ==
    IF dirs[repo_name(repo_url)] = Absent
    THEN Raise("ValueError")
    ELSE Ret(dirs[repo_name(repo_url)])

\* Variant of the mkdir without exist_ok.
mkdir_without_exist_ok(dir) ==
    IF dir.exists THEN Raise("FileExistsError")
    ELSE Ret([dir EXCEPT !.exists = TRUE])

\* output_dir.mkdir(parents=True, exist_ok=True)
mkdir(dir) == Ret([dir EXCEPT !.exists = TRUE])

\* write_text on each of the paths: the file is created or replaced.
write_text(dir, paths, content) ==
    LET old == dir.files
    IN [dir EXCEPT !.files = [p \in DOMAIN old \cup paths |->
                                 IF p \in paths THEN content ELSE old[p]]]

\* The core files in the order process_job writes them, up to the
\* generator that raises; what a generator returns is fixed by the
\* analysis (the backend answering the same way), requirements.txt by the
\* code.
WriteCoreFiles(dir, analysis, raising) ==
    LET generated ==
            CASE raising = "dockerfile" -> {}
              [] raising = "training" -> {"Dockerfile"}
              [] raising = "fastapi" -> {"Dockerfile", "training_wrapper.py"}
              [] OTHER -> {"Dockerfile", "training_wrapper.py", "app.py"}
        written == write_text(dir, generated, analysis)
    IN IF raising \in CoreKinds THEN written
       ELSE write_text(written, {"requirements.txt"}, <<"requirements">>)

\* The files of the two CI/CD blocks: deploy.yml and the Kubernetes
\* manifests, then the configs generate_ci_configs returns (the backend
\* answering each of its generators). The first generator raising leaves
\* none of them and fails the job.
CicdPaths ==
    {GHA_get_filename_deploy, "k8s/deployment.yaml", "k8s/service.yaml",
     GHA_get_filename, GitLab_get_filename, Jenkins_get_filename}

WriteCicdFiles(dir, analysis, b) ==
    IF b.ENABLE_CICD_GENERATION /\ b.raising # "cicd"
    THEN write_text(dir, CicdPaths, analysis)
    ELSE dir

\* push_code: git init unless .git exists; git add .; git commit, which
\* exits non-zero when the tree is that of the last commit (nothing to
\* commit): CalledProcessError, caught, False; otherwise the remote is set
\* and git push decides the result.
push_code(dir, pushed) ==
    LET git == IF dir.git.exists THEN dir.git
               ELSE [exists |-> TRUE, head |-> EmptyTree]
    IN IF dir.files = git.head
       THEN [dir |-> [dir EXCEPT !.git = git], result |-> FALSE]
       ELSE [dir |-> [dir EXCEPT !.git = [exists |-> TRUE,
                                          head |-> dir.files]],
             result |-> pushed]

\* What one process_job leaves: the two directories, the repository whose
\* clone was analysed, and the status of its last report.
RunResult(dirs, dir, analysed, status, cause) ==
    [temp_repo_dir |-> dirs, output |-> dir, analysed |-> analysed,
     status |-> status, cause |-> cause]

\* process_job(job_id, repo_url) on the disk it finds: the first exception
\* ends the run 'failed'; the results of clone_repository and push_code are
\* not looked at.
process_job(msg, dirs, dir, b) ==
    IF b.raising = "llm_client"
    THEN RunResult(dirs, dir, Absent, "failed", "llm_client")
    ELSE
    LET cloned == clone_repository(dirs, msg.repo_url, b.unreachable)
        analysis == analyze_repo_path(cloned.dirs, msg.repo_url)
    IN IF analysis.raised
       THEN RunResult(cloned.dirs, dir, Absent, "failed", "analyzer")
       ELSE
       LET made == mkdir(dir)
       IN IF made.raised
          THEN RunResult(cloned.dirs, dir, analysis.val, "failed", "mkdir")
          ELSE
          LET core == WriteCoreFiles(made.val, analysis.val, b.raising)
              staged == IF b.raising \in CoreKinds THEN core
                        ELSE WriteCicdFiles(core, analysis.val, b)
              published == IF b.ENABLE_GITHUB_PUSH /\ b.raising # "publish"
                           THEN push_code(staged, b.pushed).dir
                           ELSE staged
              cause == IF b.raising \in CoreKinds THEN "generator"
                       ELSE IF b.ENABLE_CICD_GENERATION /\ b.raising = "cicd"
                       THEN "cicd"
                       ELSE IF b.ENABLE_GITHUB_PUSH /\ b.raising = "publish"
                       THEN "publish"
                       ELSE IF b.ENABLE_S3_UPLOAD /\ b.raising = "upload"
                       THEN "upload"
                       ELSE IF b.ENABLE_DEPLOYMENT /\ b.raising = "deploy"
                       THEN "deploy"
                       ELSE "none"
          IN RunResult(cloned.dirs,
                       IF cause \in {"generator", "cicd", "publish"}
                       THEN staged
                       ELSE published,
                       analysis.val,
                       IF cause = "none" THEN "completed" ELSE "failed",
                       cause)

\* The names directly under a job's directory that the claims look at.
FilesOf(dir) ==
    DOMAIN dir.files \cup (IF dir.git.exists THEN {".git"} ELSE {})

RerunInit ==
    /\ inbox \in [1..MaxRuns -> JobMessages]
    /\ behaviour \in Behaviours
    /\ temp_repo_dir = [n \in DirNames |-> Absent]
    /\ automlops_output = [j \in JobIds |-> NoDirectory]
    /\ runs = <<>>
    /\ GenUnused
    /\ WorkerUnused
    /\ FleetUnused
    /\ AnalyzerUnused
    /\ CiUnused

\* main: blpop returns the oldest message and process_job runs to its end.
ProcessNextMessage ==
    /\ inbox # <<>>
    /\ LET msg == Head(inbox)
           r == process_job(msg, temp_repo_dir, automlops_output[msg.job_id],
                            behaviour)
       IN /\ temp_repo_dir' = r.temp_repo_dir
          /\ automlops_output' =
                 [automlops_output EXCEPT ![msg.job_id] = r.output]
          /\ runs' = Append(runs, [msg |-> msg, analysed |-> r.analysed,
                                   status |-> r.status, cause |-> r.cause,
                                   files |-> FilesOf(r.output)])
    /\ inbox' = Tail(inbox)
    /\ UNCHANGED <<behaviour, genVars, workerVars, fleetVars, analyzerVars,
                   ciVars>>

RerunNext == ProcessNextMessage

RerunSpec == RerunInit /\ [][RerunNext]_vars

-----------------------------------------------------------------------------
(* CI harness: one call of generate_ci_configs on a drawn input. *)

CiInit ==
    /\ ciAnalysis \in Analyses
    /\ ciBackends \in [gha : PipelineBackends("gha_train"),
                       gitlab : PipelineBackends("gitlab_ci"),
                       jenkins : PipelineBackends("jenkins")]
    /\ ciPhase = "input"
    /\ ciConfigs = <<>>
    /\ GenUnused
    /\ WorkerUnused
    /\ FleetUnused
    /\ AnalyzerUnused
    /\ RerunUnused

CallGenerateCiConfigs ==
    /\ ciPhase = "input"
    /\ ciConfigs' = generate_ci_configs(ciAnalysis, ciBackends.gha,
                                        ciBackends.gitlab, ciBackends.jenkins)
    /\ ciPhase' = "returned"
    /\ UNCHANGED <<ciAnalysis, ciBackends,
                   genVars, workerVars, fleetVars, analyzerVars, rerunVars>>

CiNext == CallGenerateCiConfigs

CiSpec == CiInit /\ [][CiNext]_vars

-----------------------------------------------------------------------------
(* Properties of the pipeline (Spec) *)

TerminalStatuses == {"completed", "failed"}

\* The statuses a job goes through, as its status record sees them when
\* every update is delivered: the submission's "queued", then what
\* process_job emitted.
StatusSequence == <<"queued">> \o w.emitted

Occurrences(s, x) == Cardinality({i \in 1..Len(s) : s[i] = x})

StageFlags(c) ==
    <<c.ENABLE_K8S_BUILD, c.ENABLE_TRAINING, c.ENABLE_DEPLOYMENT>>

\* C1: whatever the build/train/deploy flags, when process_job has returned
\* the last status it emitted is 'completed' or 'failed', exactly one
\* terminal status was emitted in the run, and none is emitted before the
\* end of the run.
C1_RunEndsInOneTerminalStatus ==
    /\ w.pc = "returned"
          => /\ w.emitted # <<>>
             /\ Last(w.emitted) \in TerminalStatuses
             /\ Occurrences(w.emitted, "completed")
                  + Occurrences(w.emitted, "failed") = 1
    /\ w.pc \notin {"returned", "blpop"}
          => \A i \in 1..Len(w.emitted) : w.emitted[i] \notin TerminalStatuses

\* C1 witness: a run with all three stage flags on has returned after an
\* exception of the deploy stage, a run having emitted 'failed' last.
C1_Witness ==
    /\ w.pc = "returned"
    /\ StageFlags(cfg) = <<TRUE, TRUE, TRUE>>
    /\ w.failCause = "deploy"
    /\ w.emitted = <<"analyzing", "generating", "failed">>

\* The sequence of job states the state machine prescribes for a run
\* without failure under the flags of c.
PrescribedSequence(c) ==
    <<"queued", "analyzing", "generating">>
    \o (IF c.ENABLE_K8S_BUILD THEN <<"building">> ELSE <<>>)
    \o (IF c.ENABLE_TRAINING THEN <<"training">> ELSE <<>>)
    \o (IF c.ENABLE_DEPLOYMENT THEN <<"deploying">> ELSE <<>>)
    \o <<"completed">>

\* C2: a run without failure reports exactly Queued, Analyzing, Generating,
\* the enabled ones of Building, Training, Deploying in that order, and
\* Completed.
C2_PrescribedStatusSequence ==
    (w.pc = "returned" /\ w.failCause = "none")
        => StatusSequence = PrescribedSequence(cfg)

\* C3: a run ends in 'failed' only because the analyzer failed or an
\* enabled provisioner or sink raised; the generation backend, however it
\* behaves (unconfigured at construction of the client included), never
\* makes the run fail.
C3_BackendNeverFailsJob ==
    (w.pc = "returned" /\ Last(w.emitted) = "failed")
        => w.failCause \in {"analyzer", "publish", "upload", "deploy"}

\* C4: when the deploy stage is on and deploy_inference_api returned None,
\* the stage counts as skipped and the run ends 'completed'.
C4_NoneFromDeployIsSkipped ==
    (w.pc = "returned" /\ w.deployResult = "None")
        => Last(w.emitted) = "completed"

-----------------------------------------------------------------------------
(* Properties of the generators (GenSpec) *)

\* Equality of two lists of texts up to leading and trailing whitespace.
SameTexts(a, b) ==
    /\ Len(a) = Len(b)
    /\ \A i \in 1..Len(a) : Strip(a[i]) = Strip(b[i])

\* C5: generate() of every generator returns for every profile and every
\* backend behaviour; it never raises to its caller.
C5_GenerateNeverRaises == gPhase = "returned" => ~gResult.raised

\* C6: whatever the backend does, every content generate() returns is
\* non-empty.
C6_ContentNonEmpty ==
    (gPhase = "returned" /\ ~gResult.raised)
        => /\ gResult.contents # <<>>
           /\ \A i \in 1..Len(gResult.contents) : gResult.contents[i] # <<>>

\* The statically defined fallback of a kind, profile values substituted.
FallbackTemplate(kind, repo_analysis, project_name) ==
    LET frameworks == Get(repo_analysis, "ml_frameworks", <<>>)
    IN CASE kind = "dockerfile" ->
              <<Docker_generate_fallback_dockerfile(
                    Docker_detect_python_version(repo_analysis), frameworks)>>
         [] kind = "training" ->
              <<Training_generate_fallback_training_script(frameworks, <<>>).val>>
         [] kind = "fastapi" -> <<FastAPI_generate_fallback_fastapi>>
         [] kind = "deploy_workflow" ->
              <<AgentGHA_generate_fallback_workflow(
                    project_name,
                    AgentGHA_detect_python_version(repo_analysis),
                    AgentGHA_detect_tests(repo_analysis))>>
         [] kind = "k8s" ->
              K8s_generate_fallback_manifests(
                  project_name, K8s_detect_gpu_requirement(frameworks))
         [] kind = "gha_train" -> <<GHA_get_fallback_config(repo_analysis)>>
         [] kind = "gitlab_ci" -> <<GitLab_get_fallback_config(repo_analysis)>>
         [] kind = "jenkins" -> <<Jenkins_get_fallback_config(repo_analysis)>>

\* C7: when the backend raises on the call made for a kind, generate()
\* returns that kind's fallback template.
C7_RaisingBackendGivesFallback ==
    (gPhase = "returned" /\ gBackend.raises)
        => /\ ~gResult.raised
           /\ SameTexts(gResult.contents,
                        FallbackTemplate(gKind, gProfile, "ml-api"))

LanguageTags == {"dockerfile", "Dockerfile", "python", "yaml", "yml", "groovy"}

\* The response has an opened and closed fenced block.
HasFencedBlock(text) == Len(Split(text, <<"F">>)) >= 3

\* What stands between the first two fences, without the language tag line.
FirstFencedBlock(text) ==
    LET block == Split(text, <<"F">>)[2]
    IN IF block # <<>> /\ Head(block) \in LanguageTags
       THEN DropFirstLine(block)
       ELSE block

\* C8: when the response embeds fenced blocks, tagged or not, with or
\* without text around them, the content is that of the first fenced block.
C8_FirstFencedBlockIsContent ==
    (gPhase = "returned" /\ ~gBackend.raises /\ HasFencedBlock(gBackend.text))
        => /\ ~gResult.raised
           /\ SameTexts(gResult.contents, <<FirstFencedBlock(gBackend.text)>>)

Documents(text) ==
    LET parts == Split(text, <<"---">>)
    IN {Strip(parts[i]) : i \in 1..Len(parts)}

ExpectedKeys(kind) ==
    CASE kind \in {"deploy_workflow", "gha_train"} -> {"name:", "on:", "jobs:"}
      [] kind = "k8s" -> {"apiVersion:", "metadata:", "spec:"}
      [] kind = "gitlab_ci" -> {"stages:"}

\* The extraction rule: the first fenced block, else the trimmed response.
Extracted(text) ==
    IF HasFencedBlock(text) THEN Strip(FirstFencedBlock(text)) ELSE Strip(text)

\* C10: for the YAML kinds, when the extracted text lacks an expected
\* top-level key, generate() returns the fallback template of the kind.
C10_InvalidYamlGivesFallback ==
    (gPhase = "returned" /\ gKind \in YamlKinds /\ ~gBackend.raises
       /\ \E key \in ExpectedKeys(gKind) :
             ~HasKey(Extracted(gBackend.text), key))
        => /\ ~gResult.raised
           /\ SameTexts(gResult.contents,
                        FallbackTemplate(gKind, gProfile, "ml-api"))

-----------------------------------------------------------------------------
(* Properties of the pipeline, continued (Spec) *)

InSeq(x, s) == \E i \in 1..Len(s) : s[i] = x

\* The invocations of generators among the calls of a run.
GeneratorCalls(wr) == {i \in 1..Len(wr.calls) : wr.calls[i] \in Kinds}

\* C11: when the repository could not be obtained (no clone at the path),
\* the run ends 'failed' with a non-empty error message, 'generating' is
\* never reported, no generator is invoked and nothing is written to the
\* staging directory.
C11_AnalyzerFailureIsFatal ==
    /\ (InSeq("analyzer.analyze_structure", w.calls) /\ ~w.cloned)
          => /\ w.failCause = "analyzer"
             /\ ~InSeq("generating", w.emitted)
             /\ GeneratorCalls(w) = {}
             /\ w.staged = {}
    /\ (w.pc \in {"returned", "blpop"} /\ w.failCause = "analyzer")
          => /\ Last(w.emitted) = "failed"
             /\ w.errorMessage > 0

\* C11 witness: a run whose clone failed has returned, 'failed' reported
\* with the text of the ValueError.
C11_Witness ==
    /\ w.pc = "returned"
    /\ ~w.cloned
    /\ w.failCause = "analyzer"
    /\ w.emitted = <<"analyzing", "failed">>
    /\ w.errorMessage = ExceptionTextLen("Repository not cloned")

\* C12: a job's failure does not end the worker: from the except clause
\* the worker gets back to the dequeue, and every job in the queue is
\* eventually dequeued and processed to the return of process_job.
C12_WorkerSurvivesFailure ==
    /\ (w.pc = "except") ~> (w.pc = "blpop")
    /\ \A j \in 1..MaxJobs :
          InSeq(j, queue) ~> (w.job = j /\ w.pc = "returned")

\* C12 witness: the backend is not configured, so every job fails; the
\* second job has been dequeued after the first one failed, and processed.
C12_Witness ==
    /\ llmMode = "unconfigured"
    /\ w.job = 2
    /\ w.pc = "returned"
    /\ Last(w.emitted) = "failed"

\* The positions of process_job at which a status is reported, with the
\* status and the position that follows.
ReportSteps ==
    [start |-> [status |-> "analyzing", next |-> "llm"],
     report_generating |-> [status |-> "generating", next |-> "gen_dockerfile"],
     complete |-> [status |-> "completed", next |-> "returned"],
     except |-> [status |-> "failed", next |-> "returned"]]

\* C13: reporting is best-effort. Whether a status report is delivered or
\* not, the step goes on to the same position with the same calls made,
\* the same files staged and no exception; and a returned run has emitted
\* 'completed' exactly when no stage raised, 'failed' otherwise, whatever
\* the tracking service received.
C13_ReportingIsBestEffort ==
    /\ [][(w.pc \in DOMAIN ReportSteps /\ w' # w)
            => /\ w'.pc = ReportSteps[w.pc].next
               /\ w'.emitted = Append(w.emitted, ReportSteps[w.pc].status)
               /\ w'.calls = w.calls
               /\ w'.staged = w.staged
               /\ w'.failCause = w.failCause
               /\ w'.error = w.error]_vars
    /\ [](w.pc = "returned"
            => Last(w.emitted) = IF w.failCause = "none"
                                 THEN "completed" ELSE "failed")

\* C13 witness: every report of a run failed (the tracking service still
\* has the job queued) and the run went through every stage to 'completed'.
C13_Witness ==
    /\ w.pc = "returned"
    /\ w.tracked = "queued"
    /\ w.emitted = <<"analyzing", "generating", "completed">>
    /\ InSeq("github_client.push_code", w.calls)
    /\ InSeq("s3_manager.upload_directory", w.calls)
    /\ InSeq("inference_manager.deploy_inference_api", w.calls)

\* C14: the error message of a 'failed' report is the exception's text cut
\* to a fixed maximum length. No maximum is given a number, so the statement
\* checked is the least any maximum requires: the report of the longest
\* exception text drawn is shorter than that text.
C14_ErrorMessageIsTruncated ==
    (w.pc = "returned" /\ Last(w.emitted) = "failed")
        => /\ w.errorMessage <= w.error
           /\ w.error = MaxErrorLen => w.errorMessage < MaxErrorLen

\* The calls that reach the backend of each optional stage.
StageCalls ==
    [build |-> {"k8s_manager.create_build_job"},
     train |-> {"training_manager.create_training_job",
                "training_manager.monitor_training_job"},
     deploy |-> {"inference_manager.deploy_inference_api"},
     upload |-> {"s3_manager.upload_file", "s3_manager.upload_directory"},
     publish |-> {"github_client.create_repository",
                  "github_client.push_code"}]

\* The status event of each stage that has one.
StageStatus == [build |-> "building", train |-> "training",
                deploy |-> "deploying"]

StageFlag(c) ==
    [build |-> c.ENABLE_K8S_BUILD, train |-> c.ENABLE_TRAINING,
     deploy |-> c.ENABLE_DEPLOYMENT, upload |-> c.ENABLE_S3_UPLOAD,
     publish |-> c.ENABLE_GITHUB_PUSH]

Invoked(stage) == \E i \in 1..Len(w.calls) : w.calls[i] \in StageCalls[stage]

\* C15: a stage whose flag is false never has its backend invoked and never
\* has a status event emitted for it.
C15_DisabledStageIsSilent ==
    \A stage \in DOMAIN StageCalls :
        ~StageFlag(cfg)[stage]
            => /\ ~Invoked(stage)
               /\ stage \in DOMAIN StageStatus
                     => ~InSeq(StageStatus[stage], w.emitted)

\* C15 witness: with publish on and upload and deploy off, a run has gone
\* past the three stages to 'completed' having called only the GitHub
\* client.
C15_Witness ==
    /\ w.pc = "returned"
    /\ Last(w.emitted) = "completed"
    /\ cfg.ENABLE_GITHUB_PUSH
    /\ ~cfg.ENABLE_S3_UPLOAD
    /\ ~cfg.ENABLE_DEPLOYMENT
    /\ Invoked("publish")
    /\ ~Invoked("upload")
    /\ ~Invoked("deploy")

\* C16: each of the build, train and deploy flags gates its own provisioner
\* and nothing else: a run that ends 'completed' has invoked the
\* provisioner of every enabled stage, and the deploy stage does not fail
\* for want of the manager that the build flag creates.
C16_FlagsGateOwnProvisioner ==
    /\ (w.pc = "returned" /\ Last(w.emitted) = "completed")
          => \A stage \in {"build", "train", "deploy"} :
                StageFlag(cfg)[stage] => Invoked(stage)
    /\ (w.pc = "returned" /\ cfg.ENABLE_DEPLOYMENT /\ ~cfg.ENABLE_K8S_BUILD)
          => w.failCause # "deploy"

\* With deploy on and build off no run ends 'completed'.
DeployWithoutBuildNeverCompletes ==
    (w.pc = "returned" /\ cfg.ENABLE_DEPLOYMENT /\ ~cfg.ENABLE_K8S_BUILD)
        => Last(w.emitted) = "failed"

\* The files process_job writes before the CI block, and with
\* ENABLE_CICD_GENERATION.
CoreArtifacts ==
    {"Dockerfile", "training_wrapper.py", "app.py", "requirements.txt"}
CicdArtifacts ==
    {".github/workflows/deploy.yml", "k8s/deployment.yaml", "k8s/service.yaml"}

\* The artifacts generated in a run that got past generation.
GeneratedArtifacts(c, wr) ==
    CoreArtifacts
    \cup (IF c.ENABLE_CICD_GENERATION
          THEN CicdArtifacts \cup wr.ci_configs ELSE {})

OptionalStageCalls == UNION {StageCalls[stage] : stage \in DOMAIN StageCalls}

\* C17: when the first provisioner or sink call of a run is made, every
\* artifact generated for the job is in the staging directory, and no
\* generator is invoked after it.
C17_StagingBeforeOptionalStages ==
    /\ (\E i \in 1..Len(w.calls) : w.calls[i] \in OptionalStageCalls)
          => w.staged = GeneratedArtifacts(cfg, w)
    /\ \A i, j \in 1..Len(w.calls) :
          (w.calls[i] \in OptionalStageCalls /\ w.calls[j] \in Kinds) => j < i

\* C17 witness: with CI/CD generation on, the GitHub client is called after
\* the ten artifacts (three CI configs among them) were written.
C17_Witness ==
    /\ cfg.ENABLE_CICD_GENERATION
    /\ w.pc = "upload"
    /\ Invoked("publish")
    /\ Cardinality(w.ci_configs) = 3
    /\ w.staged = CoreArtifacts \cup CicdArtifacts \cup w.ci_configs
    /\ Cardinality(w.staged) = 10

\* The five flags that gate a provisioner or a sink.
AllStagesOff(c) == \A stage \in DOMAIN StageCalls : ~StageFlag(c)[stage]

\* The artifact set of a configuration: the core files, and with
\* ENABLE_CICD_GENERATION the deploy workflow, the manifests and the three
\* CI configurations.
FixedArtifactSet(c) ==
    CoreArtifacts
    \cup (IF c.ENABLE_CICD_GENERATION
          THEN CicdArtifacts
               \cup {GHA_get_filename, GitLab_get_filename,
                     Jenkins_get_filename}
          ELSE {})

\* C18: with every optional stage off, a run whose analysis succeeded ends
\* 'completed', calls no provisioner and no sink, and has written exactly
\* the fixed artifact set, whatever the backend returned or raised.
C18_AllOffCompletesWithFixedSet ==
    (AllStagesOff(cfg) /\ w.pc = "returned" /\ w.analysis # NoAnalysis)
        => /\ Last(w.emitted) = "completed"
           /\ \A i \in 1..Len(w.calls) : w.calls[i] \notin OptionalStageCalls
           /\ w.staged = FixedArtifactSet(cfg)

\* C19: a run in which the publish or the upload of the staged artifacts
\* failed, by an exception or by a False result, is never reported
\* 'completed' and ends 'failed'.
C19_SinkFailureIsFatal ==
    (w.sinkFailures # {} \/ w.failCause \in {"publish", "upload"})
        => /\ ~InSeq("completed", w.emitted)
           /\ w.pc = "returned" => Last(w.emitted) = "failed"

NeverReady == [kind |-> "never", at |-> 0]

\* The deploy stage of the run has waited for the load balancer until the
\* timeout.
TimedOut == w.deployResult = "dict" /\ w.waited >= LoadBalancerTimeout

\* C20: both polling loops end within the timeout plus one round when
\* the awaited resource never becomes ready, and return their 'not ready'
\* value; a run whose load-balancer wait timed out has the pending endpoint,
\* does not fail, and ends 'completed' with that endpoint reported.
C20_PollingIsBoundedAndNonFatal ==
    /\ w.deployResult = "dict"
          => \E call_seconds \in CallSeconds :
                w.waited < LoadBalancerTimeout + LoadBalancerPollSeconds
                               + call_seconds
    /\ TimedOut
          => /\ w.deployment_url = "pending"
             /\ w.failCause = "none"
             /\ w.pc \in {"complete", "returned", "blpop"}
             /\ w.pc # "complete"
                   => /\ Last(w.emitted) = "completed"
                      /\ w.api_endpoint = "pending"
    /\ (TimedOut /\ w.pc = "complete")
          => \A call_seconds \in CallSeconds :
                LET lb == wait_for_loadbalancer(NeverReady, call_seconds)
                    tr == monitor_training_job(TRUE, NeverReady, call_seconds)
                IN /\ lb.endpoint = "pending"
                   /\ lb.elapsed >= LoadBalancerTimeout
                   /\ lb.elapsed < LoadBalancerTimeout
                                     + LoadBalancerPollSeconds + call_seconds
                   /\ tr.status = "timeout"
                   /\ tr.elapsed >= TrainingTimeout
                   /\ tr.elapsed < TrainingTimeout + TrainingPollSeconds
                                       + call_seconds

\* C20 witness: a run whose load-balancer wait ran into the timeout is
\* back from process_job, reported 'completed' with the pending endpoint.
C20_Witness ==
    /\ TimedOut
    /\ w.pc = "returned"
    /\ w.emitted = <<"analyzing", "generating", "completed">>
    /\ w.api_endpoint = "pending"

-----------------------------------------------------------------------------
(* Claims about the queue, checked under FleetSpec *)

\* The jobs some worker process is inside process_job with.
InFlight == {instances[i].job : i \in {k \in Instances :
                                           instances[k].pc = "process_job"}}

\* C21: a message is handed to at most one worker process, and a job
\* whose worker died inside process_job is not on the list, is not being
\* processed by any worker, and has not reached a terminal state, in every
\* state after the crash.
C21_LostJobIsNeverProcessedAgain ==
    /\ \A m \in Messages : deliveries[m] <= 1
    /\ \A m \in lost :
          /\ m \notin finished
          /\ m \notin InFlight
          /\ ~InSeq(m, fleetQueue)

\* C21 witness: the worker holding message 1 died, it was restarted, the
\* other messages were processed to the end, and message 1 is still lost.
C21_Witness ==
    /\ lost = {1}
    /\ finished = Messages \ {1}
    /\ fleetQueue = <<>>
    /\ \A i \in Instances : instances[i] = AtBlpop

-----------------------------------------------------------------------------
(* Claims about one worker's order of work, checked under Spec *)

\* A step of the worker that took a message from the list.
Dequeued == Len(queue') < Len(queue)

\* A step in which a status was reported or a collaborator called.
EventHappened == w'.emitted # w.emitted \/ w'.calls # w.calls

\* C22: one worker has one job in flight: a message is taken only when the
\* previous run is over, the message taken is the oldest one, jobs start in
\* the order they were pushed, and every status report and collaborator
\* call belongs to the job in flight and is made inside its run.
C22_OneJobInFlightInQueueOrder ==
    [][/\ Dequeued
          => /\ w.pc = "blpop"
             /\ w' = FreshRun(Head(queue))
             /\ \A k \in 1..Len(queue') : w'.job < queue'[k]
       /\ w'.job # w.job => (Dequeued /\ w'.job = w.job + 1)
       /\ (EventHappened /\ ~Dequeued)
          => /\ w'.job = w.job
             /\ w.pc \notin {"blpop", "returned"}]_vars

\* C22 witness: the second job is in flight and has made its calls after
\* the first one was over, with nothing else on the list.
C22_Witness ==
    /\ w.job = 2
    /\ w.pc = "complete"
    /\ InSeq("analyzer.analyze_structure", w.calls)
    /\ queue = <<>>

\* C23: within one run the terminal status is final: a terminal status is
\* the last one emitted, 'completed' and 'failed' never both occur,
\* 'generating' comes only after 'analyzing', a returned run has exactly
\* one terminal status, and once a terminal status is emitted the run emits
\* nothing more.
C23_TerminalStatusIsFinal ==
    /\ [](/\ \A i \in 1..Len(w.emitted) :
                /\ w.emitted[i] \in TerminalStatuses => i = Len(w.emitted)
                /\ w.emitted[i] = "generating"
                      => \E j \in 1..(i - 1) : w.emitted[j] = "analyzing"
          /\ ~(InSeq("completed", w.emitted) /\ InSeq("failed", w.emitted))
          /\ w.pc = "returned"
                => Cardinality({i \in 1..Len(w.emitted) :
                                   w.emitted[i] \in TerminalStatuses}) = 1)
    /\ [][(w'.job = w.job
           /\ \E i \in 1..Len(w.emitted) : w.emitted[i] \in TerminalStatuses)
             => w'.emitted = w.emitted]_vars

\* C23 witness: a run with CI/CD generation on has returned with
\* 'completed' as its third and last status.
C23_Witness ==
    /\ w.pc = "returned"
    /\ cfg.ENABLE_CICD_GENERATION
    /\ Len(w.emitted) = 3
    /\ w.emitted[2] = "generating"
    /\ w.emitted[3] = "completed"

\* C24: every run that ends in failure has delivered its 'failed' status to
\* the tracking service: when process_job has returned after an exception,
\* the job's status at the tracking service is 'failed'.
C24_FailureReachesTrackingService ==
    (w.pc = "returned" /\ w.failCause # "none") => w.tracked = "failed"

-----------------------------------------------------------------------------
(* Claims about the analyzer, checked under AnalyzeSpec *)

\* The seven categories in the order of precedence, each with the key of
\* the analysis that holds it.
Categories ==
    <<"python_files", "notebooks", "requirements_files", "config_files",
      "model_files", "data_files", "readme">>

\* The files a returned analysis lists in category number c.
Listed(c) == {aResult.val[Categories[c]][k] :
                 k \in 1..Len(aResult.val[Categories[c]])}

\* The files of the clone outside the skipped directories.
Discovered == {Walked(aRepo.files)[k] : k \in 1..Len(Walked(aRepo.files))}

AnalysisReturned == aPhase = "returned" /\ ~aResult.raised

\* Every discovered file is in at most one category (holds).
NoFileInTwoCategories ==
    AnalysisReturned
        => \A f \in Discovered :
              Cardinality({c \in 1..Len(Categories) : f \in Listed(c)}) <= 1

\* C25: a returned analysis lists every discovered file in exactly one of
\* the seven categories.
C25_EveryFileInExactlyOneCategory ==
    AnalysisReturned
        => \A f \in Discovered :
              Cardinality({c \in 1..Len(Categories) : f \in Listed(c)}) = 1

\* The rule of category number c, as the condition of its branch.
Matches(c, f) ==
    CASE c = 1 -> EndsWith(f.name, {".py"})
      [] c = 2 -> EndsWith(f.name, {".ipynb"})
      [] c = 3 -> f.name \in RequirementsNames
      [] c = 4 -> EndsWith(f.name, ConfigSuffixes)
      [] c = 5 -> EndsWith(f.name, ModelSuffixes)
      [] c = 6 -> EndsWith(f.name, DataSuffixes) /\ HasData(f.dir)
      [] c = 7 -> Lower(f.name[1]) = "readme"

\* C26: a discovered file that matches the rule of some category is listed
\* in the earliest category it matches, data and readme included.
C26_FirstMatchingCategoryWins ==
    AnalysisReturned
        => \A f \in Discovered :
              \A c \in 1..Len(Categories) :
                 (Matches(c, f) /\ \A b \in 1..(c - 1) : ~Matches(b, f))
                     => f \in Listed(c)

\* C27: analyze_structure raises when the clone directory does not exist
\* and when it exists and holds no file.
C27_EmptyRepositoryIsRejected ==
    (aPhase = "returned" /\ (~aRepo.exists \/ aRepo.files = <<>>))
        => aResult.raised

-----------------------------------------------------------------------------
(* Claims about the stored artifacts, checked under Spec *)

\* C28: when storage upload is on and a run has ended 'completed', the
\* bucket holds, for every file p of the staging directory, the key
\* jobs/<job>/p, and distinct files have distinct keys.
C28_CompletedJobIsMirrored ==
    (cfg.ENABLE_S3_UPLOAD /\ w.pc = "returned"
     /\ Last(w.emitted) = "completed")
        => /\ \A f \in w.staged :
                 <<"jobs", "/", ToString(w.job), "/", f>> \in w.objects
           /\ Cardinality(w.objects) = Cardinality(w.staged)

\* The relative path(s) each artifact kind is written to.
ArtifactPaths ==
    [dockerfile |-> {"Dockerfile"},
     training |-> {"training_wrapper.py"},
     fastapi |-> {"app.py"},
     requirements |-> {"requirements.txt"},
     deploy_workflow |-> {".github/workflows/deploy.yml"},
     k8s |-> {"k8s/deployment.yaml", "k8s/service.yaml"},
     gha_train |-> {GHA_get_filename},
     gitlab_ci |-> {GitLab_get_filename},
     jenkins |-> {Jenkins_get_filename}]

\* The kind written by the step at each position of process_job, and the
\* kinds written only with ENABLE_CICD_GENERATION.
StepKind ==
    [gen_dockerfile |-> "dockerfile", gen_training |-> "training",
     gen_fastapi |-> "fastapi", requirements |-> "requirements",
     gen_deploy_workflow |-> "deploy_workflow", gen_k8s |-> "k8s"]
CicdKinds == {"deploy_workflow", "k8s"}
CiConfigKinds == {"gha_train", "gitlab_ci", "jenkins"}

\* C29: the paths of the artifact kinds are fixed and pairwise disjoint, the
\* CI generators name their files .github/workflows/train.yml,
\* .gitlab-ci.yml and Jenkinsfile, and every step of a run that writes an
\* artifact writes exactly the paths of its kind, none of which was in the
\* staging directory before, whatever the analysis and the backend.
C29_FixedDisjointArtifactPaths ==
    /\ [](/\ w.pc = "push"
                => /\ \A k1, k2 \in DOMAIN ArtifactPaths :
                         k1 # k2
                            => ArtifactPaths[k1] \cap ArtifactPaths[k2] = {}
                   /\ GHA_get_filename = ".github/workflows/train.yml"
                   /\ GitLab_get_filename = ".gitlab-ci.yml"
                   /\ Jenkins_get_filename = "Jenkinsfile"
          /\ w.staged \subseteq UNION {ArtifactPaths[k] :
                                         k \in DOMAIN ArtifactPaths})
    /\ [][/\ (/\ w.pc \in DOMAIN StepKind
              /\ w'.pc \notin {w.pc, "except"}
              /\ StepKind[w.pc] \in CicdKinds => cfg.ENABLE_CICD_GENERATION)
             => /\ ArtifactPaths[StepKind[w.pc]] \cap w.staged = {}
                /\ w'.staged = w.staged \cup ArtifactPaths[StepKind[w.pc]]
          /\ (w.pc = "ci" /\ w'.pc = "push")
             => /\ w'.ci_configs \cap w.staged = {}
                /\ w'.staged = w.staged \cup w'.ci_configs
                /\ w'.ci_configs \subseteq
                      UNION {ArtifactPaths[k] : k \in CiConfigKinds}]_vars

\* C29 witness: all ten artifacts are in the staging directory when the
\* generation is over.
C29_Witness ==
    /\ w.pc = "push"
    /\ w.staged = UNION {ArtifactPaths[k] : k \in DOMAIN ArtifactPaths}
    /\ Cardinality(w.staged) = 10

-----------------------------------------------------------------------------
(* Claims about repeated generation, checked under GenSpec *)

-----------------------------------------------------------------------------
(* Claims about the directories kept between jobs, checked under RerunSpec *)

\* C31: every run that analysed a clone analysed the clone of the
\* repository its own message names.
C31_JobAnalysedFromOwnRepository ==
    \A k \in 1..Len(runs) :
        runs[k].analysed # Absent
            => runs[k].analysed = RepositoryOf(runs[k].msg.repo_url)

-----------------------------------------------------------------------------
(* Claims about what reaches the object store, checked under Spec *)

\* C32: every object stored for a job is one of the files process_job
\* wrote for it, under the job's prefix; nothing the publish step created
\* in the staging directory is stored.
C32_OnlyArtifactsAreUploaded ==
    \A key \in w.objects :
        \E f \in w.staged : key = s3_key(JobPrefix(w.job), f)

\* C33: in a run reported 'completed', the storage locator is set only if
\* the files of the staging directory were stored, and a CI config has a
\* locator only if it was stored under the job's ci/ prefix.
C33_LocatorsNameStoredObjects ==
    (w.pc = "returned" /\ Last(w.emitted) = "completed")
        => /\ w.model_s3_path # <<>>
                => \A f \in w.staged :
                      s3_key(JobPrefix(w.job), f) \in w.objects
           /\ \A f \in w.ci_urls :
                 JobPrefix(w.job) \o <<"/", "ci", "/", f>> \in w.objects

-----------------------------------------------------------------------------
(* Claims about the CI configuration step, checked under Spec *)

\* The three filenames generate_ci_configs can return.
AllCiConfigs == {GHA_get_filename, GitLab_get_filename, Jenkins_get_filename}

\* C34: whatever fails inside the CI configuration step (a generator, the
\* upload of the configs), the step hands over to the publish stage: it
\* raises nothing, reports nothing and leaves the job's outcome open.
C34_CiFailureNeverFailsJob ==
    [][(w.pc = "ci" /\ w' # w)
          => /\ w'.pc = "push"
             /\ w'.failCause = "none"
             /\ w'.error = 0
             /\ w'.emitted = w.emitted]_vars

\* C34 witness: a run with every optional stage on in which a CI generator
\* raised and the upload of the configs raised, and which went through
\* publish, upload and deploy and was reported 'completed'.
C34_Witness ==
    /\ w.pc = "returned"
    /\ Last(w.emitted) = "completed"
    /\ cfg.ENABLE_CICD_GENERATION
    /\ w.ci_configs # {}
    /\ w.ci_configs # AllCiConfigs
    /\ upload_ci_configs(cfg, w.ci_configs).raised
    /\ InList("github_client.push_code", w.calls)
    /\ InList("s3_manager.upload_directory", w.calls)
    /\ InList("inference_manager.deploy_inference_api", w.calls)

-----------------------------------------------------------------------------
(* Claims about generate_ci_configs, checked under CiSpec *)

\* What each CI generator does on the drawn input, taken alone.
CiResult(kind) ==
    Generate(kind, ciAnalysis, "",
             CASE kind = "gha_train" -> ciBackends.gha
               [] kind = "gitlab_ci" -> ciBackends.gitlab
               [] kind = "jenkins" -> ciBackends.jenkins)

CiFilename(kind) ==
    CASE kind = "gha_train" -> GHA_get_filename
      [] kind = "gitlab_ci" -> GitLab_get_filename
      [] kind = "jenkins" -> Jenkins_get_filename

\* C35: the dict generate_ci_configs returns has exactly the filenames of
\* the generators that did not raise, each with what its own generator
\* returned, whichever of the others raised.
C35_CiGeneratorsAreIsolated ==
    ciPhase = "returned"
        => /\ DOMAIN ciConfigs =
                  {CiFilename(k) : k \in {j \in CiConfigKinds : ~CiResult(j).raised}}
           /\ \A k \in CiConfigKinds :
                 ~CiResult(k).raised
                     => ciConfigs[CiFilename(k)] = CiResult(k).contents[1]

\* C35 witness: the first generator raised and the dict holds the configs
\* of the other two.
C35_Witness ==
    /\ ciPhase = "returned"
    /\ CiResult("gha_train").raised
    /\ DOMAIN ciConfigs = {GitLab_get_filename, Jenkins_get_filename}
    /\ ciConfigs[GitLab_get_filename] # <<>>

-----------------------------------------------------------------------------
(* Claims about malformed messages, checked under FleetSpec *)

\* The messages pushed whose data main cannot turn into a call.
Malformed == {m \in Messages : bodies[m] \notin {"unsent", "job"}}

\* C36: process_job is never entered for a malformed message (so nothing
\* is reported and no collaborator is called for it); once a worker has
\* received it, it is off the list for good; and the worker that received
\* it is back at blpop after its sleep: no worker ever leaves main's loop.
C36_MalformedMessageIsDropped ==
    /\ [](/\ \A m \in Malformed :
                /\ m \notin InFlight
                /\ m \notin finished
                /\ m \notin lost
                /\ deliveries[m] = 1 => /\ ~InSeq(m, fleetQueue)
                                        /\ \E i \in Instances :
                                              <<m, i>> \in dropped
          /\ \A i \in Instances :
                instances[i].pc \in {"blpop", "process_job", "sleep",
                                     "crashed"})
    /\ [][\A i \in Instances :
             instances[i].pc = "sleep"
                 => instances'[i].pc \in {"sleep", "blpop", "crashed"}]_vars

\* C36 witness: a worker dropped a malformed message and is now inside
\* process_job with a message that was queued behind it.
C36_Witness ==
    \E d \in dropped :
        /\ instances[d[2]].pc = "process_job"
        /\ instances[d[2]].job > d[1]
        /\ bodies[d[1]] = "no_repo_url"

-----------------------------------------------------------------------------
(* Claims about processing a message again, checked under RerunSpec *)

\* C37: when a message is processed and the next message is the same one,
\* the collaborators answering as before, the second run ends in the
\* status and for the cause of the first and leaves the job's directory
\* with the same files; the clone, the files and the .git directory the
\* first run left do not change it.
C37_ReprocessingIsIdempotent ==
    \A k \in 1..(Len(runs) - 1) :
        runs[k + 1].msg = runs[k].msg
            => /\ runs[k + 1].status = runs[k].status
               /\ runs[k + 1].cause = runs[k].cause
               /\ runs[k + 1].analysed = runs[k].analysed
               /\ runs[k + 1].files = runs[k].files

\* C37 witness: a job that cloned its repository, staged every file and
\* pushed them was processed again and completed again, over the clone and
\* the .git directory of the first run.
C37_Witness ==
    /\ Len(runs) >= 2
    /\ runs[2].msg = runs[1].msg
    /\ behaviour.ENABLE_GITHUB_PUSH /\ behaviour.ENABLE_CICD_GENERATION
    /\ behaviour.pushed
    /\ runs[1].status = "completed"
    /\ runs[2].status = "completed"
    /\ ".git" \in runs[1].files
    /\ CicdPaths \cup {"Dockerfile", "app.py"} \subseteq runs[2].files
    /\ temp_repo_dir[repo_name(runs[1].msg.repo_url)]
           = RepositoryOf(runs[1].msg.repo_url)

====
